---- MODULE Spec2Model ----
(***************************************************************************)
(* Admin authentication and abuse mitigation of basedchats: the sliding    *)
(* window rate limiter (lib/rate-limiting.ts), the authorization policy    *)
(* (lib/auth-utils.ts), the login and session server actions               *)
(* (app/admin/actions/auth.ts, lib/admin-auth.ts) and the route guard      *)
(* (middleware.ts).                                                        *)
(*                                                                         *)
(* Time is the value of Date.now().  Durations are scaled down to small    *)
(* integers that keep the order relations of the source: every page and    *)
(* API category has blockDurationMs >= windowMs, admin_auth_failures has   *)
(* blockDurationMs < windowMs, the garbage-collection age exceeds every    *)
(* window and every block duration.                                        *)
(***************************************************************************)
EXTENDS Integers, Sequences, FiniteSets, TLC

VARIABLES
    now,                \* Date.now()
    ADMIN_ADDRESSES,    \* process.env.ADMIN_ADDRESSES, split at ','
    ADDRESSES_VERSION,  \* process.env.ADMIN_ADDRESSES_VERSION || "v1.0"
    NODE_ENV,           \* process.env.NODE_ENV
    NEXT_PUBLIC_URL,    \* process.env.NEXT_PUBLIC_URL
    rateLimitStore,     \* rate-limiting.ts: Map<string, RateLimitRecord>
    cookie,             \* the client's admin-session cookie
    issued,             \* history: the cookie's value was set by the server
    cleared,            \* history: a logout, and no successful login since
    focus,              \* the (key, category) whose limiter history is recorded
    accepted,           \* history: times of the focus pair's accepted calls
    blockedAt,          \* history: time T of the rejection that began the focus pair's block
    failures,           \* history: times of the failed signature verifications
    perCategory,        \* history: a limiter record kept for the focus pair alone
    last,               \* the last operation and what it returned
    redis,              \* enhanced-rate-limiting.ts: a Redis client is configured
    redisData,          \* the value Redis holds under rate_limit:<storageKey>
    memoryStore,        \* enhanced-rate-limiting.ts: memoryStore.get(storageKey)
    enhancedCategory,   \* the category of the storage key
    inFlight,           \* the enhancedRateLimit calls and where each one stands
    begun,              \* history: the number of enhancedRateLimit calls begun
    admitted,           \* history: the times of the calls enhancedRateLimit allowed
    limitedAt,          \* history: time T of the last rejection by reaching the limit
    storeFailed,        \* history: a Redis get or set has failed
    overlapped,         \* history: a call began while another was in flight
    lastEnhanced,       \* the enhancedRateLimit call that returned last
    lastStatus,         \* the checkRateLimitStatus call that returned last
    rawSignature,       \* verifyAdminSignature: the signature string as submitted
    normalizedSignature, \* verifyAdminSignature: what became of it before verifyMessage
    csrfCookie,         \* the client's csrf-token cookie
    lastCsrf,           \* the last CSRF operation and what it returned
    pending             \* the calls that await an external service

vars == <<now, ADMIN_ADDRESSES, ADDRESSES_VERSION, NODE_ENV, NEXT_PUBLIC_URL,
          rateLimitStore, cookie,
          issued, cleared, focus, accepted, blockedAt, failures, perCategory, last,
          redis, redisData, memoryStore, enhancedCategory, inFlight, begun,
          admitted, limitedAt, storeFailed, overlapped, lastEnhanced, lastStatus,
          rawSignature, normalizedSignature, csrfCookie, lastCsrf, pending>>

\* The state of the route guard, the login and the sessions, but the clock.
guardVars == <<ADMIN_ADDRESSES, ADDRESSES_VERSION, NODE_ENV, NEXT_PUBLIC_URL,
               rateLimitStore, cookie,
               issued, cleared, focus, accepted, blockedAt, failures, perCategory, last>>

\* The state of the enhanced limiter.
enhancedVars == <<redis, redisData, memoryStore, enhancedCategory, inFlight, begun,
                  admitted, limitedAt, storeFailed, overlapped, lastEnhanced,
                  lastStatus>>

\* The signature string of a login and its normalisation.
formatVars == <<rawSignature, normalizedSignature>>

\* The CSRF token cookie and the last request under withCSRFProtection.
csrfVars == <<csrfCookie, lastCsrf>>

toolVars == <<formatVars, csrfVars, pending>>

\* The state of the services beside the guard.
serviceVars == <<enhancedVars, toolVars>>

\* The last instant of the clock, for the limiter's and for the sessions'
\* specification.
MaxTimeLimiter == 4
MaxTimeLogin == 5
MaxTimeSession == 4
MaxTimeEnhanced == 5
MaxTimeCsrf == 5
MaxTimeCleanup == 6

\* The number of enhancedRateLimit calls of a behaviour.
MaxCalls == 4

\* The calls of enhancedRateLimit made strictly one after another.
MaxSequentialCalls == 5

\* The longest signature string submitted, in hex digits.
MaxHex == 134

----------------------------------------------------------------------------
\* Strings and their conversions

\* String.prototype.toLowerCase on the strings of the model.
toLowerCase(s) ==
    CASE s = "0xAB"  -> "0xab"
      [] s = " 0xAB" -> " 0xab"
      [] s = "0xCD"  -> "0xcd"
      [] s = " 0xCD" -> " 0xcd"
      [] OTHER       -> s

\* String.prototype.trim on the strings of the model.
trim(s) ==
    CASE s = " 0xAB" -> "0xAB"
      [] s = " 0xab" -> "0xab"
      [] s = " 0xCD" -> "0xCD"
      [] s = " 0xcd" -> "0xcd"
      [] OTHER       -> s

Range(s) == { s[i] : i \in 1..Len(s) }

MinOf(S) == CHOOSE x \in S : \A y \in S : x <= y

MaxOf(a, b) == IF a >= b THEN a ELSE b

\* Math.ceil(a / b) for a >= 0, b > 0.
CeilDiv(a, b) == (a + b - 1) \div b

----------------------------------------------------------------------------
\* Authorization policy (lib/auth-utils.ts)

\* process.env.ADMIN_ADDRESSES when the variable is not set.
Unset == <<"unset">>

\* The configurations of ADMIN_ADDRESSES: unset, one address, two addresses
\* written "0xAB, 0xCD" (the second entry keeps its leading blank after split).
EnvConfigs == { Unset, <<"0xAB">>, <<"0xAB", " 0xCD">> }

Versions == { "v1.0", "v1.1" }

\* getAuthorizedAddresses throws when ADMIN_ADDRESSES is not set.
getAuthorizedAddressesThrows(env) == env = Unset

getAuthorizedAddresses(env) == { trim(env[i]) : i \in 1..Len(env) }

\* isAuthorizedAddress(address); defined when getAuthorizedAddresses returns.
isAuthorizedAddress(env, address) ==
    \E authAddr \in getAuthorizedAddresses(env) :
        toLowerCase(authAddr) = toLowerCase(address)

\* middleware.ts keeps its own list: ADMIN_ADDRESSES?.split(',') || [].
AUTHORIZED_ADDRESSES(env) ==
    IF env = Unset THEN {} ELSE { env[i] : i \in 1..Len(env) }

----------------------------------------------------------------------------
\* Rate limiter (lib/rate-limiting.ts)

Categories == { "admin_pages", "admin_api_read", "admin_api_write",
                "admin_export", "admin_auth_failures", "admin_login_access" }

\* RATE_LIMITS, scaled: counts and durations are small integers in the
\* source's order relations (see the module comment).
RATE_LIMITS ==
    [ admin_pages         |-> [maxRequests |-> 3, windowMs |-> 2, blockDurationMs |-> 2],
      admin_api_read      |-> [maxRequests |-> 2, windowMs |-> 2, blockDurationMs |-> 3],
      admin_api_write     |-> [maxRequests |-> 2, windowMs |-> 2, blockDurationMs |-> 3],
      admin_export        |-> [maxRequests |-> 1, windowMs |-> 2, blockDurationMs |-> 3],
      admin_auth_failures |-> [maxRequests |-> 2, windowMs |-> 3, blockDurationMs |-> 2],
      admin_login_access  |-> [maxRequests |-> 2, windowMs |-> 2, blockDurationMs |-> 3] ]

\* Milliseconds per second, the divisor of retryAfter (scaled from 1000).
MS_PER_SECOND == 2

\* cleanupRateLimits: maxAge (scaled from 24 hours).
CLEANUP_MAX_AGE == 4

IPs == { "ip1" }

\* getClientId(request): `${ip}:${uaHash}`, the key the guard uses.
getClientId(ip) == <<ip, "ua">>

\* verifyAdminSignature keys the auth-failure limiter by the bare address.
clientIpKey(ip) == <<ip>>

Keys == { getClientId(ip) : ip \in IPs } \cup { clientIpKey(ip) : ip \in IPs }

NoRecord == [requests |-> <<>>, lastCleanup |-> 0 - 1]

Paths == { "/admin", "/admin/login", "/admin/export", "/api/admin/casts",
           "/api/admin/export" }

Methods == { "GET", "POST" }

\* pathname.includes('export')
includesExport(pathname) == pathname \in { "/admin/export", "/api/admin/export" }

\* pathname.startsWith('/api/admin')
startsWithApiAdmin(pathname) == pathname \in { "/api/admin/casts", "/api/admin/export" }

\* pathname.startsWith('/admin')
startsWithAdmin(pathname) == pathname \in { "/admin", "/admin/login", "/admin/export" }

getRateLimitCategory(pathname, method) ==
    IF pathname = "/admin/login" /\ method = "GET" THEN "admin_login_access"
    ELSE IF includesExport(pathname) THEN "admin_export"
    ELSE IF startsWithApiAdmin(pathname)
         THEN (IF method = "GET" THEN "admin_api_read" ELSE "admin_api_write")
    ELSE "admin_pages"

\* A cleanup that deletes every record not touched at this instant.
cleanupRateLimitsAnyAge(store, t) ==
    [ k \in Keys |->
        IF store[k] # NoRecord /\ t - store[k].lastCleanup > 0
        THEN NoRecord ELSE store[k] ]

\* cleanupRateLimits(): delete every record not touched for maxAge.
cleanupRateLimits(store, t) ==
    [ k \in Keys |->
        IF store[k] # NoRecord /\ t - store[k].lastCleanup > CLEANUP_MAX_AGE
        THEN NoRecord ELSE store[k] ]

\* One run of the limiter's algorithm on a record: the record it leaves and
\* the result it returns.
limitRecord(record, config, t) ==
    LET rec0        == IF record = NoRecord
                       THEN [requests |-> <<>>, lastCleanup |-> t] ELSE record
        windowStart == t - config.windowMs
        filtered    == SelectSeq(rec0.requests, LAMBDA ts : ts > windowStart)
        full        == Len(filtered) >= config.maxRequests
        blockUntil  == IF full THEN MinOf(Range(filtered)) + config.blockDurationMs
                       ELSE 0
        pushed      == Append(IF full THEN <<>> ELSE filtered, t)
    IN  IF full /\ t < blockUntil
        THEN [ record     |-> [rec0 EXCEPT !.requests = filtered],
               allowed    |-> FALSE,
               remaining  |-> 0,
               resetTime  |-> blockUntil,
               retryAfter |-> CeilDiv(blockUntil - t, MS_PER_SECOND) ]
        ELSE [ record     |-> [requests |-> pushed, lastCleanup |-> t],
               allowed    |-> TRUE,
               remaining  |-> MaxOf(0, config.maxRequests - Len(pushed)),
               resetTime  |-> t + config.windowMs,
               retryAfter |-> 0 ]

\* checkRateLimit(clientId, category) at time t; doCleanup is the outcome of
\* Math.random() < 0.01.  The record is looked up by clientId alone.
checkRateLimit(store, clientId, category, t, doCleanup) ==
    LET result(r) ==
            LET store1 == [store EXCEPT ![clientId] = r.record]
            IN  [ store      |-> IF r.allowed /\ doCleanup
                                 THEN cleanupRateLimits(store1, t) ELSE store1,
                  allowed    |-> r.allowed,
                  remaining  |-> r.remaining,
                  resetTime  |-> r.resetTime,
                  retryAfter |-> r.retryAfter ]
    IN  result(limitRecord(store[clientId], RATE_LIMITS[category], t))

----------------------------------------------------------------------------
\* Cookie values and sessions (lib/types.ts AdminSession, JSON in a cookie)

\* A field that the JSON object does not have.
UndefinedNum == 0 - 1
UndefinedStr == "<undefined>"

NoCookie == [kind |-> "none"]
Garbage  == [kind |-> "garbage"]      \* a value JSON.parse throws on

\* JSON.stringify(session), and what JSON.parse gives back.
Json(address, issuedAt, expiresAt, addressVersion) ==
    [ kind |-> "json", address |-> address, issuedAt |-> issuedAt,
      expiresAt |-> expiresAt, addressVersion |-> addressVersion ]

\* JavaScript's !x on a number and on a string field.
falsyNum(n) == n = UndefinedNum \/ n = 0
falsyStr(s) == s = UndefinedStr \/ s = ""

\* A session record: all four fields present and truthy.
IsSession(c) ==
    /\ c.kind = "json"
    /\ ~falsyStr(c.address) /\ ~falsyNum(c.issuedAt)
    /\ ~falsyNum(c.expiresAt) /\ ~falsyStr(c.addressVersion)

\* Session lifetime, 24 * 60 * 60 * 1000 ms in the source (scaled).
SESSION_LIFETIME == 2

\* The options of a cookieStore.set or cookieStore.delete call; a key the
\* call does not pass is UndefinedStr.
CookieOptions(httpOnly, secure, sameSite, maxAge, path, domain) ==
    [ httpOnly |-> httpOnly, secure |-> secure, sameSite |-> sameSite,
      maxAge |-> maxAge, path |-> path, domain |-> domain ]

\* process.env.NEXT_PUBLIC_URL?.replace('https://', '')
replaceHttps(url) ==
    IF url = "https://basedchats.example" THEN "basedchats.example" ELSE url

\* lib/admin-auth.ts SECURE_COOKIE_OPTIONS under the process environment.
SECURE_COOKIE_OPTIONS(nodeEnv, url) ==
    CookieOptions("true",
                  IF nodeEnv = "production" THEN "true" ELSE "false",
                  "strict", "86400", "/",
                  IF nodeEnv = "production" THEN replaceHttps(url) ELSE UndefinedStr)

\* cookieStore.delete('admin-session') passes the name alone.
DeleteOptions ==
    CookieOptions(UndefinedStr, UndefinedStr, UndefinedStr, UndefinedStr,
                  UndefinedStr, UndefinedStr)

\* The two copies of the session actions in the repository.
Builds == { "auth.ts", "part_004" }

\* The cookie writes of clearAdminSession(), in order: app/admin/actions/auth.ts
\* calls cookieStore.delete; the copy in part_004 first sets an empty value
\* with SECURE_COOKIE_OPTIONS, maxAge 0 and a past expiry, then calls delete.
clearAdminSessionWrites(build, nodeEnv, url) ==
    LET delete == [call |-> "delete", value |-> "", options |-> DeleteOptions]
        set    == [call |-> "set", value |-> "",
                   options |-> [SECURE_COOKIE_OPTIONS(nodeEnv, url)
                                    EXCEPT !.maxAge = "0"]]
    IN  IF build = "auth.ts" THEN <<delete>> ELSE <<set, delete>>

\* The guard's validateAdminSessionMiddleware(request).
validateAdminSessionMiddleware(c, env, version, t) ==
    LET invalid(e) == [isValid |-> FALSE, session |-> NoCookie, error |-> e]
    IN  IF c = NoCookie THEN invalid("No admin session found")
        ELSE IF c = Garbage THEN invalid("Invalid session format")
        ELSE IF falsyStr(c.address) \/ falsyNum(c.expiresAt) \/ falsyNum(c.issuedAt)
             THEN invalid("Malformed session data")
        ELSE IF falsyStr(c.addressVersion) \/ c.addressVersion # version
             THEN invalid("Session invalidated due to security update")
        ELSE IF t > c.expiresAt THEN invalid("Session expired")
        ELSE IF ~(\E authAddr \in AUTHORIZED_ADDRESSES(env) :
                     toLowerCase(authAddr) = toLowerCase(c.address))
             THEN invalid("Address no longer authorized")
        ELSE [isValid |-> TRUE, session |-> c, error |-> ""]

\* A validateAdminSession that reports an expired session without deleting
\* its cookie.
validateAdminSessionKeepsExpired(c, env, version, t) ==
    LET invalid(e, after) ==
            [isValid |-> FALSE, session |-> NoCookie, error |-> e, cookie |-> after]
    IN  IF c = NoCookie THEN invalid("No admin session found", c)
        ELSE IF c = Garbage THEN invalid("Invalid session format", c)
        ELSE IF falsyStr(c.address) \/ falsyNum(c.expiresAt) \/ falsyNum(c.issuedAt)
             THEN invalid("Malformed session data", c)
        ELSE IF falsyStr(c.addressVersion) \/ c.addressVersion # version
             THEN invalid("Session invalidated due to security update", NoCookie)
        ELSE IF t > c.expiresAt THEN invalid("Session expired", c)
        ELSE IF getAuthorizedAddressesThrows(env)
             THEN invalid("Session validation failed", c)
        ELSE IF ~isAuthorizedAddress(env, c.address)
             THEN invalid("Address no longer authorized", NoCookie)
        ELSE [isValid |-> TRUE, session |-> c, error |-> "", cookie |-> c]

\* lib/admin-auth.ts validateAdminSession(): its result and the cookie it leaves.
validateAdminSession(c, env, version, t) ==
    LET invalid(e, after) ==
            [isValid |-> FALSE, session |-> NoCookie, error |-> e, cookie |-> after]
    IN  IF c = NoCookie THEN invalid("No admin session found", c)
        ELSE IF c = Garbage THEN invalid("Invalid session format", c)
        ELSE IF falsyStr(c.address) \/ falsyNum(c.expiresAt) \/ falsyNum(c.issuedAt)
             THEN invalid("Malformed session data", c)
        ELSE IF falsyStr(c.addressVersion) \/ c.addressVersion # version
             THEN invalid("Session invalidated due to security update", NoCookie)
        ELSE IF t > c.expiresAt THEN invalid("Session expired", NoCookie)
        ELSE IF getAuthorizedAddressesThrows(env)
             THEN invalid("Session validation failed", c)
        ELSE IF ~isAuthorizedAddress(env, c.address)
             THEN invalid("Address no longer authorized", NoCookie)
        ELSE [isValid |-> TRUE, session |-> c, error |-> "", cookie |-> c]

\* clearAdminSession(): the cookie it leaves.
clearAdminSession(c) == NoCookie

\* getAdminSession(): the session it returns (NoCookie for null) and the
\* cookie it leaves.
getAdminSession(c, env, t) ==
    LET null(after) == [session |-> NoCookie, cookie |-> after]
    IN  IF c = NoCookie THEN null(c)
        ELSE IF c = Garbage THEN null(c)
        ELSE IF c.expiresAt # UndefinedNum /\ t > c.expiresAt
             THEN null(clearAdminSession(c))
        ELSE IF c.address = UndefinedStr \/ getAuthorizedAddressesThrows(env)
             THEN null(c)
        ELSE IF ~isAuthorizedAddress(env, c.address)
             THEN null(clearAdminSession(c))
        ELSE [session |-> c, cookie |-> c]

----------------------------------------------------------------------------
\* The limiter's calls of one operation, with their history

\* The pairs the program calls checkRateLimit with: the guard's key with
\* the category of the path, the bare address with admin_auth_failures.
FocusPairs ==
    { <<getClientId(ip), c>> : ip \in IPs, c \in Categories \ {"admin_auth_failures"} }
    \cup { <<clientIpKey(ip), "admin_auth_failures">> : ip \in IPs }

NoFocus == <<<<"none">>, "none">>

\* The focus on the client's logouts: no limiter history is recorded, the
\* history of the logouts is.
LogoutFocus == <<<<"none">>, "logout">>

\* The limiter state an operation threads through its checkRateLimit calls.
Limiter ==
    [ store |-> rateLimitStore, accepted |-> accepted, blockedAt |-> blockedAt,
      perCategory |-> perCategory, calls |-> <<>>, allowed |-> TRUE,
      category |-> "" ]

\* One checkRateLimit call; a call of the focus pair is recorded: what it
\* returned and the requests it left in the record, how many calls of the
\* pair had been accepted inside the window before this one, the time T of
\* the rejection that began the pair's block (a rejection at or after
\* T + blockDurationMs begins a new one, an accepted call ends it), and what
\* a record kept for this pair alone returns for the same call (alone: the
\* stored record is that record, no other category has left a mark on it).
Invoke(h, clientId, category, t, doCleanup) ==
    LET rec    == <<clientId, category>> = focus
        config == RATE_LIMITS[category]
        next(r, own, prior) ==
            [ store       |-> r.store,
              accepted    |-> IF ~rec THEN h.accepted
                              ELSE IF r.allowed THEN Append(prior, t) ELSE prior,
              blockedAt   |-> IF ~rec THEN h.blockedAt
                              ELSE IF r.allowed THEN 0 - 1
                              ELSE IF h.blockedAt >= 0
                                      /\ t < h.blockedAt + config.blockDurationMs
                                   THEN h.blockedAt
                              ELSE t,
              perCategory |-> IF rec THEN own.record ELSE h.perCategory,
              calls       |-> IF ~rec THEN h.calls
                              ELSE Append(h.calls,
                                  [ clientId |-> clientId, category |-> category,
                                    time |-> t, allowed |-> r.allowed,
                                    remaining |-> r.remaining,
                                    retryAfter |-> r.retryAfter,
                                    requests |-> r.store[clientId].requests,
                                    priorAccepted |-> Len(prior),
                                    blockedAt |-> h.blockedAt,
                                    alone |-> h.store[clientId] = h.perCategory,
                                    ownAllowed |-> own.allowed,
                                    ownRemaining |-> own.remaining ]),
              allowed     |-> r.allowed,
              category    |-> category ]
    IN  next(checkRateLimit(h.store, clientId, category, t, doCleanup),
             limitRecord(h.perCategory, config, t),
             SelectSeq(h.accepted, LAMBDA ts : ts > t - config.windowMs))

\* checkAuthFailureRateLimit(clientId)
checkAuthFailureRateLimit(h, clientId, t, doCleanup) ==
    Invoke(h, clientId, "admin_auth_failures", t, doCleanup)

\* adminRateLimit(request, pathname): the limiter call of the guard.
adminRateLimit(h, ip, pathname, method, t, doCleanup) ==
    Invoke(h, getClientId(ip), getRateLimitCategory(pathname, method), t, doCleanup)

----------------------------------------------------------------------------
\* Login (app/admin/actions/auth.ts)

Addresses  == { "0xab", "0xCD" }

\* generateAuthMessage(address) at time t: the text embeds the address and
\* Date.now() (and a nonce, which nothing reads).
generateAuthMessage(address, t) == [address |-> address, timestamp |-> t]

\* The messages of the model were generated at the first instant.
Messages == { generateAuthMessage(a, 1) : a \in Addresses }

\* The signature of a message by the key of an address.
sign(key, message) == [kind |-> "signature", signer |-> key, message |-> message]

\* A string that is no signature.
Malformed == [kind |-> "malformed", signer |-> "", message |-> generateAuthMessage("", 0)]

\* The signatures of the model: the message of 0xab signed by the key of
\* 0xab and by the key of 0xcd, and a malformed one.
Signatures ==
    { sign("0xab", generateAuthMessage("0xab", 1)),
      sign("0xcd", generateAuthMessage("0xab", 1)),
      Malformed }

\* viem's verifyMessage({address, message, signature}): "throws" on a
\* malformed signature, else whether the signature is the address's
\* signature of the message.
verifyMessage(address, message, signature) ==
    IF signature.kind = "malformed" THEN "throws"
    ELSE IF signature.signer = toLowerCase(address) /\ signature.message = message
         THEN "true" ELSE "false"

\* A verifyAdminSignature that consults the failure limiter before it looks
\* at the allow-list (the order the code does not have).
verifyAdminSignatureRateLimitFirst(h, c, env, version, ip, address, signature, message, t, cl1, cl2) ==
    LET clientIp == clientIpKey(ip)
        verdict == verifyMessage(address, message, signature)
        out(ok, e, h2, c2, v) ==
            [ success |-> ok, error |-> e, limiter |-> h2, cookie |-> c2,
              verified |-> v, verdict |-> IF v THEN verdict ELSE "none" ]
        failed(e, authRateLimit) ==
            out(FALSE, e, checkAuthFailureRateLimit(authRateLimit, clientIp, t, cl2),
                c, TRUE)
        checked(authRateLimit) ==
            IF ~authRateLimit.allowed
            THEN out(FALSE, "Too many failed authentication attempts",
                     authRateLimit, c, FALSE)
            ELSE IF ~isAuthorizedAddress(env, address)
            THEN out(FALSE, "Address not authorized for admin access",
                     authRateLimit, c, FALSE)
            ELSE IF verdict = "throws"
            THEN failed("Invalid signature format", authRateLimit)
            ELSE IF verdict = "false"
            THEN failed("Invalid signature", authRateLimit)
            ELSE out(TRUE, "", authRateLimit,
                     Json(address, t, t + SESSION_LIFETIME, version), TRUE)
    IN  IF getAuthorizedAddressesThrows(env)
        THEN out(FALSE, "Authentication failed due to server error",
                 checkAuthFailureRateLimit(h, clientIp, t, cl1), c, FALSE)
        ELSE checked(checkAuthFailureRateLimit(h, clientIp, t, cl1))

\* A verifyAdminSignature that stores the normalized (lower-case) address in
\* the session.
verifyAdminSignatureStoresLowerCase(h, c, env, version, ip, address, signature, message, t, cl1, cl2) ==
    LET clientIp == clientIpKey(ip)
        verdict == verifyMessage(address, message, signature)
        out(ok, e, h2, c2, v) ==
            [ success |-> ok, error |-> e, limiter |-> h2, cookie |-> c2,
              verified |-> v, verdict |-> IF v THEN verdict ELSE "none" ]
        failed(e, authRateLimit) ==
            out(FALSE, e, checkAuthFailureRateLimit(authRateLimit, clientIp, t, cl2),
                c, TRUE)
        checked(authRateLimit) ==
            IF ~authRateLimit.allowed
            THEN out(FALSE, "Too many failed authentication attempts",
                     authRateLimit, c, FALSE)
            ELSE IF verdict = "throws"
            THEN failed("Invalid signature format", authRateLimit)
            ELSE IF verdict = "false"
            THEN failed("Invalid signature", authRateLimit)
            ELSE out(TRUE, "", authRateLimit,
                     Json(toLowerCase(address), t, t + SESSION_LIFETIME, version), TRUE)
    IN  IF getAuthorizedAddressesThrows(env)
        THEN out(FALSE, "Authentication failed due to server error",
                 checkAuthFailureRateLimit(h, clientIp, t, cl1), c, FALSE)
        ELSE IF ~isAuthorizedAddress(env, address)
        THEN out(FALSE, "Address not authorized for admin access", h, c, FALSE)
        ELSE checked(checkAuthFailureRateLimit(h, clientIp, t, cl1))

\* A verifyAdminSignature that takes an exception of the verifier for a
\* verified signature.
verifyAdminSignatureFailsOpen(h, c, env, version, ip, address, signature, message, t, cl1, cl2) ==
    LET clientIp == clientIpKey(ip)
        verdict == verifyMessage(address, message, signature)
        out(ok, e, h2, c2, v) ==
            [ success |-> ok, error |-> e, limiter |-> h2, cookie |-> c2,
              verified |-> v, verdict |-> IF v THEN verdict ELSE "none" ]
        failed(e, authRateLimit) ==
            out(FALSE, e, checkAuthFailureRateLimit(authRateLimit, clientIp, t, cl2),
                c, TRUE)
        checked(authRateLimit) ==
            IF ~authRateLimit.allowed
            THEN out(FALSE, "Too many failed authentication attempts",
                     authRateLimit, c, FALSE)
            ELSE IF verdict = "false"
            THEN failed("Invalid signature", authRateLimit)
            ELSE out(TRUE, "", authRateLimit,
                     Json(address, t, t + SESSION_LIFETIME, version), TRUE)
    IN  IF getAuthorizedAddressesThrows(env)
        THEN out(FALSE, "Authentication failed due to server error",
                 checkAuthFailureRateLimit(h, clientIp, t, cl1), c, FALSE)
        ELSE IF ~isAuthorizedAddress(env, address)
        THEN out(FALSE, "Address not authorized for admin access", h, c, FALSE)
        ELSE checked(checkAuthFailureRateLimit(h, clientIp, t, cl1))

\* A verifyAdminSignature whose verdict depends on the cookie of the
\* request: it rejects every signature of a client that holds a cookie.
verifyAdminSignatureOncePerSession(h, c, env, version, ip, address, signature, message, t, cl1, cl2) ==
    LET clientIp == clientIpKey(ip)
        verdict == IF c # NoCookie THEN "false"
                   ELSE verifyMessage(address, message, signature)
        out(ok, e, h2, c2, v) ==
            [ success |-> ok, error |-> e, limiter |-> h2, cookie |-> c2,
              verified |-> v, verdict |-> IF v THEN verdict ELSE "none" ]
        failed(e, authRateLimit) ==
            out(FALSE, e, checkAuthFailureRateLimit(authRateLimit, clientIp, t, cl2),
                c, TRUE)
        checked(authRateLimit) ==
            IF ~authRateLimit.allowed
            THEN out(FALSE, "Too many failed authentication attempts",
                     authRateLimit, c, FALSE)
            ELSE IF verdict = "throws"
            THEN failed("Invalid signature format", authRateLimit)
            ELSE IF verdict = "false"
            THEN failed("Invalid signature", authRateLimit)
            ELSE out(TRUE, "", authRateLimit,
                     Json(address, t, t + SESSION_LIFETIME, version), TRUE)
    IN  IF getAuthorizedAddressesThrows(env)
        THEN out(FALSE, "Authentication failed due to server error",
                 checkAuthFailureRateLimit(h, clientIp, t, cl1), c, FALSE)
        ELSE IF ~isAuthorizedAddress(env, address)
        THEN out(FALSE, "Address not authorized for admin access", h, c, FALSE)
        ELSE checked(checkAuthFailureRateLimit(h, clientIp, t, cl1))

\* verifyAdminSignature(address, signature, message) for a request from ip:
\* its result, the cookie it leaves, the limiter it leaves, and whether the
\* signature was handed to verifyMessage.
verifyAdminSignature(h, c, env, version, ip, address, signature, message, t, cl1, cl2) ==
    LET clientIp == clientIpKey(ip)
        verdict == verifyMessage(address, message, signature)
        out(ok, e, h2, c2, v) ==
            [ success |-> ok, error |-> e, limiter |-> h2, cookie |-> c2,
              verified |-> v, verdict |-> IF v THEN verdict ELSE "none" ]
        failed(e, authRateLimit) ==
            out(FALSE, e, checkAuthFailureRateLimit(authRateLimit, clientIp, t, cl2),
                c, TRUE)
        checked(authRateLimit) ==
            IF ~authRateLimit.allowed
            THEN out(FALSE, "Too many failed authentication attempts",
                     authRateLimit, c, FALSE)
            ELSE IF verdict = "throws"
            THEN failed("Invalid signature format", authRateLimit)
            ELSE IF verdict = "false"
            THEN failed("Invalid signature", authRateLimit)
            ELSE out(TRUE, "", authRateLimit,
                     Json(address, t, t + SESSION_LIFETIME, version), TRUE)
    IN  IF getAuthorizedAddressesThrows(env)
        THEN out(FALSE, "Authentication failed due to server error",
                 checkAuthFailureRateLimit(h, clientIp, t, cl1), c, FALSE)
        ELSE IF ~isAuthorizedAddress(env, address)
        THEN out(FALSE, "Address not authorized for admin access", h, c, FALSE)
        ELSE checked(checkAuthFailureRateLimit(h, clientIp, t, cl1))

----------------------------------------------------------------------------
\* Route guard (middleware.ts)

\* The x-admin-session headers a client can send: none, or the JSON of a
\* session of its own making.
ClientHeaders == { NoCookie, Json("0xCD", 1, MaxTimeSession + 1, "v1.0") }

\* A middleware that validates the session before it consults the limiter.
middlewareSessionFirst(h, c, env, version, ip, pathname, method, t, doCleanup, sent) ==
    LET respond(limited, auth) ==
            LET out(st, fwd, chk, lim) ==
                    [ status |-> st, forwarded |-> fwd, limiter |-> lim,
                      checked |-> chk, isValid |-> chk /\ auth.isValid,
                      code |-> IF st = "401" THEN "ADMIN_AUTH_REQUIRED" ELSE "" ]
            IN  IF startsWithAdmin(pathname) /\ pathname # "/admin/login" /\ ~auth.isValid
                THEN out("redirect", NoCookie, TRUE, h)
                ELSE IF startsWithApiAdmin(pathname) /\ ~auth.isValid
                THEN out("401", NoCookie, TRUE, h)
                ELSE IF ~limited.allowed THEN out("429", NoCookie, TRUE, limited)
                ELSE IF startsWithApiAdmin(pathname)
                THEN out("next", auth.session, TRUE, limited)
                ELSE out("next", sent, pathname # "/admin/login", limited)
    IN  respond(adminRateLimit(h, ip, pathname, method, t, doCleanup),
                validateAdminSessionMiddleware(c, env, version, t))

\* A middleware that leaves the request's headers as the client sent them.
middlewareKeepsClientHeader(h, c, env, version, ip, pathname, method, t, doCleanup, sent) ==
    LET respond(limited, auth) ==
            LET out(st, fwd, chk) ==
                    [ status |-> st, forwarded |-> fwd, limiter |-> limited,
                      checked |-> chk, isValid |-> chk /\ auth.isValid,
                      code |-> IF st = "401" THEN "ADMIN_AUTH_REQUIRED" ELSE "" ]
            IN  IF ~limited.allowed THEN out("429", NoCookie, FALSE)
                ELSE IF startsWithAdmin(pathname)
                THEN IF pathname = "/admin/login" THEN out("next", sent, FALSE)
                     ELSE IF ~auth.isValid THEN out("redirect", NoCookie, TRUE)
                     ELSE out("next", sent, TRUE)
                ELSE IF startsWithApiAdmin(pathname)
                THEN IF ~auth.isValid THEN out("401", NoCookie, TRUE)
                     ELSE out("next", sent, TRUE)
                ELSE out("next", sent, FALSE)
    IN  respond(adminRateLimit(h, ip, pathname, method, t, doCleanup),
                validateAdminSessionMiddleware(c, env, version, t))

\* middleware(request), for a request that carries the cookie c and the
\* x-admin-session header sent: the response (429, redirect, 401 with its
\* code, or next = the request goes on to its handler), the x-admin-session
\* header the handler sees, whether the session was validated and as what,
\* the limiter it leaves.
middleware(h, c, env, version, ip, pathname, method, t, doCleanup, sent) ==
    LET respond(limited, auth) ==
            LET out(st, fwd, chk) ==
                    [ status |-> st, forwarded |-> fwd, limiter |-> limited,
                      checked |-> chk, isValid |-> chk /\ auth.isValid,
                      code |-> IF st = "401" THEN "ADMIN_AUTH_REQUIRED" ELSE "" ]
            IN  IF ~limited.allowed THEN out("429", NoCookie, FALSE)
                ELSE IF startsWithAdmin(pathname)
                THEN IF pathname = "/admin/login" THEN out("next", sent, FALSE)
                     ELSE IF ~auth.isValid THEN out("redirect", NoCookie, TRUE)
                     ELSE out("next", sent, TRUE)
                ELSE IF startsWithApiAdmin(pathname)
                THEN IF ~auth.isValid THEN out("401", NoCookie, TRUE)
                     ELSE out("next", auth.session, TRUE)
                ELSE out("next", sent, FALSE)
    IN  respond(adminRateLimit(h, ip, pathname, method, t, doCleanup),
                validateAdminSessionMiddleware(c, env, version, t))

----------------------------------------------------------------------------
\* Signature normalisation (verifyAdminSignature, part_004 lines 62-113)

\* A signature string: `prefix` leading "0x", then `zeros` characters '0'
\* that the normalisation has put in front, then `hex` hex digits of the
\* submitted string.
SignatureString(prefix, zeros, hex) == [prefix |-> prefix, zeros |-> zeros, hex |-> hex]

\* The strings a client submits: with or without "0x", of any length.
SignatureStrings ==
    { SignatureString(prefix, 0, hex) : prefix \in {0, 1}, hex \in 0..MaxHex }

\* The length the code requires of the normalised string: "0x" and 130 hex digits.
SIGNATURE_LENGTH == 132

\* The canonical string: 0x followed by 130 hex digits.
Canonical(s) == s.prefix = 1 /\ s.zeros = 0 /\ s.hex = SIGNATURE_LENGTH - 2

length(s) == 2 * s.prefix + s.zeros + s.hex

startsWith0x(s) == s.prefix > 0

\* `0x${s}`
prepend0x(s) == [s EXCEPT !.prefix = @ + 1]

\* `0${s}`, for a string without prefix
prepend0(s) == [s EXCEPT !.zeros = @ + 1]

\* s.replace('0x', ''): the first "0x" goes.
replace0x(s) == IF s.prefix > 0 THEN [s EXCEPT !.prefix = @ - 1] ELSE s

\* s.padStart(n, '0'), for a string without prefix
padStart(s, n) == IF length(s) < n THEN [s EXCEPT !.zeros = @ + (n - length(s))] ELSE s

\* s.slice(0, n), for a string without prefix
slice(s, n) ==
    [s EXCEPT !.zeros = MinOf({s.zeros, n}), !.hex = MinOf({s.hex, n - MinOf({s.zeros, n})})]

\* The normalisation of verifyAdminSignature, from `let normalizedSignature
\* = signature` to the length check before verifyMessage: the string handed
\* on, and whether the length check throws.
normalizeSignature(signature) ==
    LET prefixed  == IF ~startsWith0x(signature) THEN prepend0x(signature) ELSE signature
        formats   == IF length(prefixed) = 130 THEN prepend0x(signature)
                     ELSE IF length(prefixed) = 131
                     THEN prepend0x(prepend0(replace0x(signature)))
                     ELSE prefixed
        short(sigWithoutPrefix) ==
                     IF length(sigWithoutPrefix) = 128 THEN prepend0x(sigWithoutPrefix)
                     ELSE IF length(sigWithoutPrefix) = 130 THEN prepend0x(sigWithoutPrefix)
                     ELSE IF length(sigWithoutPrefix) < 130
                     THEN prepend0x(padStart(sigWithoutPrefix, 130))
                     ELSE formats
        padded    == IF length(formats) < 132 THEN short(replace0x(formats)) ELSE formats
        long(sigWithoutPrefix) ==
                     IF length(sigWithoutPrefix) > 130
                     THEN prepend0x(slice(sigWithoutPrefix, 130))
                     ELSE padded
        truncated == IF length(padded) > 132 THEN long(replace0x(padded)) ELSE padded
    IN  [ signature |-> truncated,
          throws |-> length(truncated) # SIGNATURE_LENGTH,
          submitted |-> TRUE ]

\* No signature submitted yet.
NoSignature == [signature |-> SignatureString(0, 0, 0), throws |-> FALSE, submitted |-> FALSE]

----------------------------------------------------------------------------
\* CSRF protection (lib/security/csrf-protection.ts)

\* CSRF_TOKEN_LIFETIME, 30 minutes, scaled.
CSRF_TOKEN_LIFETIME == 2

\* randomBytes(32).toString('hex'): strings of one length.
Secrets == { <<"a">>, <<"b">> }

\* n.toString(), for n >= 0: the decimal digits.
RECURSIVE toString(_)
toString(n) ==
    LET digit == <<"0", "1", "2", "3", "4", "5", "6", "7", "8", "9">>[(n % 10) + 1]
    IN  IF n < 10 THEN <<digit>> ELSE toString(n \div 10) \o <<digit>>

\* createHash('sha256').update(s).digest('hex'): no two strings share a digest.
createHash(s) == <<"sha256">> \o s

\* No token: the header is absent, the body is no JSON or has no csrfToken.
NoToken == <<>>

\* A token that is the digest of nothing the server has hashed.
WrongToken == <<"wrong">>

NoCsrfCookie == [kind |-> "none"]
GarbageCsrf  == [kind |-> "garbage"]     \* a value JSON.parse throws on
NullCsrf     == [kind |-> "null"]        \* the JSON text null

\* JSON.stringify(tokenData), and what JSON.parse gives back.
CSRFTokenData(token, secret, issuedAt, expiresAt) ==
    [ kind |-> "data", token |-> token, secret |-> secret,
      issuedAt |-> issuedAt, expiresAt |-> expiresAt ]

\* generateCSRFToken(): the secret drawn, and the two readings of Date.now():
\* timestamp goes into the digest, t goes into issuedAt and expiresAt.
generateCSRFToken(secret, timestamp, t) ==
    CSRFTokenData(createHash(secret \o toString(timestamp)), secret,
                  t, t + CSRF_TOKEN_LIFETIME)

\* validateCSRFToken(token, secret, issuedAt); issuedAt.toString() throws for
\* an undefined issuedAt and the catch returns false.
validateCSRFToken(token, secret, issuedAt) ==
    IF issuedAt = UndefinedNum THEN FALSE
    ELSE token = createHash(secret \o toString(issuedAt))

writeOperations == { "POST", "PUT", "DELETE", "PATCH" }

CsrfMethods == { "GET" } \cup writeOperations

\* validateCSRFFromRequest without its check of the provided token.
validateCSRFFromRequestAnyToken(tokenCookie, method, headerToken, jsonToken, t) ==
    LET bodyToken     == IF method = "POST" THEN jsonToken ELSE NoToken
        providedToken == IF headerToken # NoToken THEN headerToken ELSE bodyToken
    IN  IF tokenCookie = NoCsrfCookie
        THEN [isValid |-> FALSE, error |-> "CSRF token cookie not found"]
        ELSE IF tokenCookie = GarbageCsrf
        THEN [isValid |-> FALSE, error |-> "Invalid CSRF token format"]
        ELSE IF tokenCookie = NullCsrf
        THEN [isValid |-> FALSE, error |-> "CSRF validation failed"]
        ELSE IF tokenCookie.expiresAt # UndefinedNum /\ t > tokenCookie.expiresAt
        THEN [isValid |-> FALSE, error |-> "CSRF token expired"]
        ELSE IF providedToken = NoToken
        THEN [isValid |-> FALSE, error |-> "CSRF token not provided in header or body"]
        ELSE [isValid |-> TRUE, error |-> ""]

\* validateCSRFFromRequest(request) at time t: the csrf-token cookie, the
\* method, the x-csrf-token header and the csrfToken of a JSON body.
\* Date.now() > undefined is false; reading a field of null throws and the
\* outer catch answers.
validateCSRFFromRequest(tokenCookie, method, headerToken, jsonToken, t) ==
    LET bodyToken     == IF method = "POST" THEN jsonToken ELSE NoToken
        providedToken == IF headerToken # NoToken THEN headerToken ELSE bodyToken
    IN  IF tokenCookie = NoCsrfCookie
        THEN [isValid |-> FALSE, error |-> "CSRF token cookie not found"]
        ELSE IF tokenCookie = GarbageCsrf
        THEN [isValid |-> FALSE, error |-> "Invalid CSRF token format"]
        ELSE IF tokenCookie = NullCsrf
        THEN [isValid |-> FALSE, error |-> "CSRF validation failed"]
        ELSE IF tokenCookie.expiresAt # UndefinedNum /\ t > tokenCookie.expiresAt
        THEN [isValid |-> FALSE, error |-> "CSRF token expired"]
        ELSE IF providedToken = NoToken
        THEN [isValid |-> FALSE, error |-> "CSRF token not provided in header or body"]
        ELSE IF ~validateCSRFToken(providedToken, tokenCookie.secret, tokenCookie.issuedAt)
        THEN [isValid |-> FALSE, error |-> "Invalid CSRF token"]
        ELSE [isValid |-> TRUE, error |-> ""]

\* withCSRFProtection(handler)(request): whether the handler is invoked, and
\* the response of the wrapper when it is not.
withCSRFProtection(tokenCookie, method, headerToken, jsonToken, t) ==
    LET csrfResult == validateCSRFFromRequest(tokenCookie, method, headerToken, jsonToken, t)
    IN  IF method \in writeOperations /\ ~csrfResult.isValid
        THEN [invoked |-> FALSE, status |-> 403, code |-> "CSRF_TOKEN_INVALID"]
        ELSE [invoked |-> TRUE, status |-> 0, code |-> ""]

----------------------------------------------------------------------------
\* Enhanced limiter (lib/security/enhanced-rate-limiting.ts)

\* ENHANCED_RATE_LIMITS, scaled: every category has
\* blockDurationMs >= 2 * windowMs in the source, blockDurationMs > windowMs
\* here.
ENHANCED_RATE_LIMITS ==
    [ admin_pages     |-> [maxRequests |-> 2, windowMs |-> 2, blockDurationMs |-> 3],
      admin_api_read  |-> [maxRequests |-> 2, windowMs |-> 2, blockDurationMs |-> 3],
      admin_api_write |-> [maxRequests |-> 2, windowMs |-> 2, blockDurationMs |-> 3],
      admin_export    |-> [maxRequests |-> 1, windowMs |-> 2, blockDurationMs |-> 3],
      admin_auth      |-> [maxRequests |-> 2, windowMs |-> 3, blockDurationMs |-> 4],
      admin_notify    |-> [maxRequests |-> 2, windowMs |-> 2, blockDurationMs |-> 3] ]

\* getRateLimitRecord returns null.
Null == [requests |-> <<>>, lastCleanup |-> 0 - 1, blockedUntil |-> 0 - 1, null |-> TRUE]

\* A RateLimitRecord; blockedUntil is UndefinedNum until a block is set.
RateLimitRecord(requests, lastCleanup, blockedUntil) ==
    [ requests |-> requests, lastCleanup |-> lastCleanup,
      blockedUntil |-> blockedUntil, null |-> FALSE ]

\* getRateLimitRecord(key): the value Redis holds when a client is configured
\* and the get succeeds (ok), else the value of memoryStore.
getRateLimitRecord(client, ok, data, memory) ==
    IF client /\ ok THEN data ELSE memory

\* setRateLimitRecord(key, record): Redis takes JSON.stringify(record) when a
\* client is configured and the setex succeeds (ok), else memoryStore takes
\* the record object.
setRateLimitRecord(client, ok, data, memory, json, object) ==
    IF client /\ ok THEN [redisData |-> json, memoryStore |-> memory]
    ELSE [redisData |-> data, memoryStore |-> object]

\* enhancedRateLimit from the record that getRateLimitRecord returned to its
\* return: the result, and the record it hands to setRateLimitRecord (write).
enhancedRateLimit(stored, config, t) ==
    LET record   == IF stored = Null THEN RateLimitRecord(<<>>, t, UndefinedNum)
                    ELSE stored
        filtered == SelectSeq(record.requests, LAMBDA ts : ts > t - config.windowMs)
        until    == t + config.blockDurationMs
        pushed   == Append(filtered, t)
    IN  IF ~falsyNum(record.blockedUntil) /\ t < record.blockedUntil
        THEN [ write |-> FALSE, record |-> record, allowed |-> FALSE,
               remaining |-> 0, resetTime |-> record.blockedUntil,
               retryAfter |-> CeilDiv(record.blockedUntil - t, MS_PER_SECOND) ]
        ELSE IF Len(filtered) >= config.maxRequests
        THEN [ write |-> TRUE,
               record |-> [record EXCEPT !.requests = filtered, !.blockedUntil = until],
               allowed |-> FALSE, remaining |-> 0, resetTime |-> until,
               retryAfter |-> CeilDiv(until - t, MS_PER_SECOND) ]
        ELSE [ write |-> TRUE,
               record |-> [record EXCEPT !.requests = pushed, !.lastCleanup = t],
               allowed |-> TRUE,
               remaining |-> MaxOf(0, config.maxRequests - Len(pushed)),
               resetTime |-> t + config.windowMs, retryAfter |-> UndefinedNum ]

\* A block is in force in a record at time t.
Blocked(record, t) == ~falsyNum(record.blockedUntil) /\ t < record.blockedUntil

\* checkRateLimitStatus(clientId, category) from the record that
\* getRateLimitRecord returned: the preview of the limiter's answer.
checkRateLimitStatusAtLimit(stored, config, t) ==
    LET activeRequests == SelectSeq(stored.requests, LAMBDA ts : ts > t - config.windowMs)
        remaining      == MaxOf(0, config.maxRequests - Len(activeRequests))
    IN  IF stored = Null
        THEN [ allowed |-> TRUE, remaining |-> config.maxRequests,
               resetTime |-> t + config.windowMs, retryAfter |-> UndefinedNum ]
        ELSE IF ~falsyNum(stored.blockedUntil) /\ t < stored.blockedUntil
        THEN [ allowed |-> FALSE, remaining |-> 0, resetTime |-> stored.blockedUntil,
               retryAfter |-> CeilDiv(stored.blockedUntil - t, MS_PER_SECOND) ]
        ELSE [ allowed |-> remaining >= 0, remaining |-> remaining,
               resetTime |-> t + config.windowMs, retryAfter |-> UndefinedNum ]

checkRateLimitStatus(stored, config, t) ==
    LET activeRequests == SelectSeq(stored.requests, LAMBDA ts : ts > t - config.windowMs)
        remaining      == MaxOf(0, config.maxRequests - Len(activeRequests))
    IN  IF stored = Null
        THEN [ allowed |-> TRUE, remaining |-> config.maxRequests,
               resetTime |-> t + config.windowMs, retryAfter |-> UndefinedNum ]
        ELSE IF ~falsyNum(stored.blockedUntil) /\ t < stored.blockedUntil
        THEN [ allowed |-> FALSE, remaining |-> 0, resetTime |-> stored.blockedUntil,
               retryAfter |-> CeilDiv(stored.blockedUntil - t, MS_PER_SECOND) ]
        ELSE [ allowed |-> remaining > 0, remaining |-> remaining,
               resetTime |-> t + config.windowMs, retryAfter |-> UndefinedNum ]

----------------------------------------------------------------------------
\* State machine

\* Cookie values a client can write by itself.
ClientCookies ==
    { Garbage,
      Json("0xab", 1, MaxTimeSession + 1, "v1.0"),
      Json(UndefinedStr, 1, MaxTimeSession + 1, "v1.0"),     \* no address
      Json("0xab", 1, MaxTimeSession + 1, UndefinedStr) }    \* no addressVersion

NoOp ==
    [ op |-> "none", time |-> 0, cookieBefore |-> NoCookie, calls |-> <<>>,
      status |-> "", checked |-> FALSE, isValid |-> FALSE, session |-> NoCookie,
      success |-> FALSE, verified |-> FALSE, error |-> "", address |-> "",
      authorized |-> FALSE, issuedBefore |-> FALSE, priorFailures |-> 0,
      writes |-> <<>>, signature |-> Malformed,
      message |-> generateAuthMessage("", 0), verdict |-> "none",
      allowed |-> FALSE, pathname |-> "", method |-> "", category |-> "",
      sent |-> NoCookie, code |-> "", resubmits |-> "none" ]

EmptyStore == [k \in Keys |-> NoRecord]

\* The process environments: a development build, a production build with
\* its public URL.
Runtimes == { <<"development", UndefinedStr>>,
              <<"production", "https://basedchats.example">> }

Runtime(r) == NODE_ENV = r[1] /\ NEXT_PUBLIC_URL = r[2]

Production == <<"production", "https://basedchats.example">>

\* The concurrent enhancedRateLimit calls.
Calls == { 1, 2 }

\* A call: where it stands, its Date.now(), the record it read, what it
\* decided (decision.record is the JSON it sends to Redis), and the record
\* object it holds: the object of memoryStore itself (alias), or an object
\* of its own (held).
Idle ==
    [ pc |-> "idle", t |-> 0, read |-> Null,
      decision |-> enhancedRateLimit(Null, ENHANCED_RATE_LIMITS["admin_pages"], 0),
      alias |-> FALSE, held |-> Null ]

NoCall ==
    [ t |-> 0, allowed |-> FALSE, remaining |-> 0, retryAfter |-> UndefinedNum,
      wrote |-> FALSE, limitedAt |-> 0 - 1, returned |-> FALSE ]

\* No checkRateLimitStatus call yet.
NoStatus ==
    [ allowed |-> FALSE, limiter |-> FALSE, full |-> FALSE, returned |-> FALSE ]

\* The enhanced limiter before its first call.
EnhancedInit ==
    /\ redisData = Null
    /\ memoryStore = Null
    /\ inFlight = [p \in Calls |-> Idle]
    /\ begun = 0
    /\ admitted = <<>>
    /\ limitedAt = 0 - 1
    /\ storeFailed = FALSE
    /\ overlapped = FALSE
    /\ lastEnhanced = NoCall
    /\ lastStatus = NoStatus

\* The services beside the guard, at rest.
FormatInit ==
    /\ rawSignature = SignatureString(0, 0, 0)
    /\ normalizedSignature = NoSignature

\* The awaits on an external service: Redis get and setex in
\* enhancedRateLimit, verifyMessage in verifyAdminSignature.
Awaits == { "get", "setex", "verifyMessage" }

\* No call: nothing awaited, no response.
NoRequest == [op |-> "none", pc |-> "idle", settled |-> "no", response |-> "none"]

PendingInit ==
    /\ pending = [p \in Calls |-> NoRequest]

\* No CSRF operation yet.
NoCsrfOp ==
    [ op |-> "none", method |-> "", headerToken |-> NoToken, jsonToken |-> NoToken,
      time |-> 0, cookieBefore |-> NoCsrfCookie, invoked |-> FALSE, status |-> 0,
      code |-> "" ]

CsrfInit ==
    /\ csrfCookie = NoCsrfCookie
    /\ lastCsrf = NoCsrfOp

ToolsIdle ==
    /\ FormatInit
    /\ CsrfInit
    /\ PendingInit

ServicesIdle ==
    /\ redis = FALSE
    /\ enhancedCategory = "admin_pages"
    /\ EnhancedInit
    /\ ToolsIdle

InitCommon ==
    /\ ServicesIdle
    /\ now = 1
    /\ ADDRESSES_VERSION = "v1.0"
    /\ rateLimitStore = EmptyStore
    /\ cookie = NoCookie
    /\ issued = FALSE
    /\ cleared = FALSE
    /\ accepted = <<>>
    /\ blockedAt = 0 - 1
    /\ failures = <<>>
    /\ perCategory = NoRecord
    /\ last = NoOp

SetLimiter(h) ==
    /\ rateLimitStore' = h.store
    /\ accepted' = h.accepted
    /\ blockedAt' = h.blockedAt
    /\ perCategory' = h.perCategory

\* Time passes.
Tick(max) ==
    /\ now < max
    /\ now' = now + 1
    /\ UNCHANGED serviceVars /\ UNCHANGED <<cleared, ADMIN_ADDRESSES, ADDRESSES_VERSION, NODE_ENV, NEXT_PUBLIC_URL,
                   rateLimitStore, cookie, issued, focus, accepted, blockedAt, failures, perCategory, last>>

\* A request to a guarded path, with the x-admin-session header the client
\* sent, reaches middleware().
Request(ip, pathname, method, doCleanup, sent) ==
    LET step(r) ==
            /\ SetLimiter(r.limiter)
            /\ last' = [NoOp EXCEPT !.issuedBefore = issued, !.op = "middleware",
                                    !.time = now, !.cookieBefore = cookie,
                                    !.calls = r.limiter.calls,
                                    !.status = r.status, !.checked = r.checked,
                                    !.isValid = r.isValid, !.session = r.forwarded,
                                    !.allowed = r.limiter.allowed,
                                    !.pathname = pathname, !.method = method,
                                    !.category = r.limiter.category,
                                    !.sent = sent, !.code = r.code]
            /\ UNCHANGED serviceVars /\ UNCHANGED <<cleared, now, ADMIN_ADDRESSES, ADDRESSES_VERSION, NODE_ENV,
                           NEXT_PUBLIC_URL, cookie, issued,
                           focus, failures>>
    IN  step(middleware(Limiter, cookie, ADMIN_ADDRESSES, ADDRESSES_VERSION,
                        ip, pathname, method, now, doCleanup, sent))

\* How a verifyAdminSignature call ended: the login was accepted, the
\* verifier rejected the signature, or the call was refused before the
\* signature reached the verifier.
Outcome(r) ==
    IF r.success THEN "accepted" ELSE IF r.verified THEN "rejected" ELSE "refused"

\* The login page submits (address, signature, message); resubmits is the
\* outcome of the previous operation when that was a login with the same
\* triple.
Login(ip, address, signature, message, cl1, cl2) ==
    LET window == RATE_LIMITS["admin_auth_failures"].windowMs
        step(r, prior) ==
            /\ SetLimiter(r.limiter)
            /\ cookie' = r.cookie
            /\ issued' = IF r.success THEN TRUE ELSE issued
            /\ cleared' = IF r.success THEN FALSE ELSE cleared
            /\ failures' = IF focus[2] # "admin_auth_failures" THEN failures
                            ELSE IF r.verified /\ ~r.success THEN Append(prior, now)
                            ELSE prior
            /\ last' = [NoOp EXCEPT !.issuedBefore = issued,
                                    !.op = "verifyAdminSignature", !.time = now,
                                    !.cookieBefore = cookie, !.calls = r.limiter.calls,
                                    !.success = r.success, !.verified = r.verified,
                                    !.error = r.error, !.address = address,
                                    !.signature = signature, !.message = message,
                                    !.verdict = r.verdict,
                                    !.resubmits =
                                        IF /\ last.op = "verifyAdminSignature"
                                           /\ last.address = address
                                           /\ last.signature = signature
                                           /\ last.message = message
                                        THEN Outcome(last) ELSE "none",
                                    !.priorFailures = Len(prior),
                                    !.session = IF r.success THEN r.cookie ELSE NoCookie,
                                    !.writes =
                                        IF r.success
                                        THEN << [ call |-> "set", value |-> "session",
                                                  options |-> SECURE_COOKIE_OPTIONS(
                                                      NODE_ENV, NEXT_PUBLIC_URL) ] >>
                                        ELSE <<>>,
                                    !.authorized =
                                        /\ ~getAuthorizedAddressesThrows(ADMIN_ADDRESSES)
                                        /\ isAuthorizedAddress(ADMIN_ADDRESSES, address)]
            /\ UNCHANGED serviceVars /\ UNCHANGED <<now, ADMIN_ADDRESSES, ADDRESSES_VERSION, NODE_ENV,
                           NEXT_PUBLIC_URL, focus>>
    IN  step(verifyAdminSignature(Limiter, cookie, ADMIN_ADDRESSES, ADDRESSES_VERSION,
                                  ip, address, signature, message, now, cl1, cl2),
             SelectSeq(failures, LAMBDA ts : ts > now - window))

\* A route handler or page reads the session with validateAdminSession().
Validate ==
    LET r == validateAdminSession(cookie, ADMIN_ADDRESSES, ADDRESSES_VERSION, now)
    IN  /\ cookie' = r.cookie
        /\ issued' = (issued /\ r.cookie # NoCookie)
        /\ last' = [NoOp EXCEPT !.issuedBefore = issued, !.op = "validateAdminSession", !.time = now,
                                !.cookieBefore = cookie, !.checked = TRUE,
                                !.isValid = r.isValid,
                                !.session = r.session, !.error = r.error]
        /\ UNCHANGED serviceVars /\ UNCHANGED <<cleared, now, ADMIN_ADDRESSES, ADDRESSES_VERSION, NODE_ENV, NEXT_PUBLIC_URL,
                   rateLimitStore,
                       focus, accepted, blockedAt, failures, perCategory>>

\* A server action reads the session with getAdminSession().
GetSession ==
    LET r == getAdminSession(cookie, ADMIN_ADDRESSES, now)
    IN  /\ cookie' = r.cookie
        /\ issued' = (issued /\ r.cookie # NoCookie)
        /\ last' = [NoOp EXCEPT !.issuedBefore = issued, !.op = "getAdminSession", !.time = now,
                                !.cookieBefore = cookie, !.checked = TRUE,
                                !.isValid = r.session # NoCookie,
                                !.session = r.session]
        /\ UNCHANGED serviceVars /\ UNCHANGED <<cleared, now, ADMIN_ADDRESSES, ADDRESSES_VERSION, NODE_ENV, NEXT_PUBLIC_URL,
                   rateLimitStore,
                       focus, accepted, blockedAt, failures, perCategory>>

\* logoutAdmin(): clearAdminSession() and a redirect.
Logout(build) ==
    /\ cookie' = clearAdminSession(cookie)
    /\ issued' = FALSE
    /\ cleared' = (cleared \/ focus = LogoutFocus)
    /\ last' = [NoOp EXCEPT !.issuedBefore = issued, !.op = "logoutAdmin", !.time = now,
                            !.cookieBefore = cookie,
                            !.writes = clearAdminSessionWrites(build, NODE_ENV,
                                                               NEXT_PUBLIC_URL)]
    /\ UNCHANGED serviceVars /\ UNCHANGED <<now, ADMIN_ADDRESSES, ADDRESSES_VERSION, NODE_ENV, NEXT_PUBLIC_URL,
                   rateLimitStore,
                   focus, accepted, blockedAt, failures, perCategory>>

\* The client replaces its cookie with a value of its own making.
ClientSetsCookie(c) ==
    /\ cookie # c
    /\ cookie' = c
    /\ issued' = FALSE
    /\ last' = [NoOp EXCEPT !.issuedBefore = issued, !.op = "client", !.time = now, !.cookieBefore = cookie]
    /\ UNCHANGED serviceVars /\ UNCHANGED <<cleared, now, ADMIN_ADDRESSES, ADDRESSES_VERSION, NODE_ENV, NEXT_PUBLIC_URL,
                   rateLimitStore,
                   focus, accepted, blockedAt, failures, perCategory>>

\* After a logout the client puts back the session cookie that the server
\* had issued to it and that it held until the logout.
ClientRestoresCookie ==
    /\ last.op = "logoutAdmin"
    /\ last.issuedBefore
    /\ IsSession(last.cookieBefore)
    /\ cookie' = last.cookieBefore
    /\ issued' = TRUE
    /\ last' = [NoOp EXCEPT !.issuedBefore = issued, !.op = "client", !.time = now, !.cookieBefore = cookie]
    /\ UNCHANGED serviceVars /\ UNCHANGED <<cleared, now, ADMIN_ADDRESSES, ADDRESSES_VERSION, NODE_ENV, NEXT_PUBLIC_URL,
                   rateLimitStore,
                   focus, accepted, blockedAt, failures, perCategory>>

\* The operator restarts the process with a configuration: the allow-list
\* may change, the policy version may be bumped from v1.0 to v1.1, the
\* in-memory limiter store starts empty.
Redeploy(env, version) ==
    /\ version = "v1.0" => ADDRESSES_VERSION = "v1.0"
    /\ <<env, version>> # <<ADMIN_ADDRESSES, ADDRESSES_VERSION>>
    /\ ADMIN_ADDRESSES' = env
    /\ ADDRESSES_VERSION' = version
    /\ rateLimitStore' = EmptyStore
    /\ accepted' = <<>>
    /\ blockedAt' = 0 - 1
    /\ failures' = <<>>
    /\ perCategory' = NoRecord
    /\ last' = [NoOp EXCEPT !.issuedBefore = issued, !.op = "redeploy", !.time = now, !.cookieBefore = cookie]
    /\ UNCHANGED serviceVars /\ UNCHANGED <<cleared, now, NODE_ENV, NEXT_PUBLIC_URL, cookie, issued, focus>>

\* The guard's limiter under the requests of a client, with the history
\* of one (key, category) pair.
InitLimiter ==
    /\ InitCommon
    /\ Runtime(Production)
    /\ ADMIN_ADDRESSES = <<"0xAB">>
    /\ focus \in { kc \in FocusPairs : kc[2] # "admin_auth_failures" }

NextLimiter ==
    \/ Tick(MaxTimeLimiter)
    \/ \E ip \in IPs, pathname \in Paths, method \in Methods :
          Request(ip, pathname, method, FALSE, NoCookie)

SpecLimiter == InitLimiter /\ [][NextLimiter]_vars

\* The login attempts of a client, with the history of its
\* authentication-failure record.
InitLogin ==
    /\ InitCommon
    /\ Runtime(Production)
    /\ ADMIN_ADDRESSES \in { Unset, <<"0xAB">> }
    /\ focus \in { kc \in FocusPairs : kc[2] = "admin_auth_failures" }

NextLogin ==
    \/ Tick(MaxTimeLogin)
    \/ \E ip \in IPs, address \in Addresses, signature \in Signatures,
          message \in Messages, cl1 \in BOOLEAN, cl2 \in BOOLEAN :
          Login(ip, address, signature, message, cl1, cl2)

SpecLogin == InitLogin /\ [][NextLogin]_vars

\* The limiter with its garbage collection: page requests under the guard's
\* key and failing logins under the address key, each call with or without
\* the cleanup that Math.random() < 0.01 triggers, for longer than maxAge;
\* the history is that of one key, which holds one category.
InitCleanup ==
    /\ InitCommon
    /\ Runtime(Production)
    /\ ADMIN_ADDRESSES = <<"0xAB">>
    /\ focus \in { kc \in FocusPairs : kc[2] \in {"admin_pages", "admin_auth_failures"} }

NextCleanup ==
    \/ Tick(MaxTimeCleanup)
    \/ \E ip \in IPs, doCleanup \in BOOLEAN :
          Request(ip, "/admin", "GET", doCleanup, NoCookie)
    \/ \E ip \in IPs, cl1 \in BOOLEAN, cl2 \in BOOLEAN :
          Login(ip, "0xab", Malformed, generateAuthMessage("0xab", 1), cl1, cl2)

SpecCleanup == InitCleanup /\ [][NextCleanup]_vars

\* Sessions: login, the reads of the cookie by the server actions and route
\* handlers, logout, a client writing its own cookie, and redeployments.
Init ==
    /\ InitCommon
    /\ \E r \in Runtimes : Runtime(r)
    /\ ADMIN_ADDRESSES \in EnvConfigs
    /\ focus = NoFocus

Next ==
    \/ Tick(MaxTimeSession)
    \/ \E ip \in IPs, address \in Addresses, signature \in Signatures :
          Login(ip, address, signature, generateAuthMessage("0xab", 1), FALSE, FALSE)
    \/ Validate
    \/ GetSession
    \/ \E build \in Builds : Logout(build)
    \/ \E c \in ClientCookies : ClientSetsCookie(c)
    \/ \E env \in EnvConfigs, version \in Versions : Redeploy(env, version)

Spec == Init /\ [][Next]_vars

\* The route guard: the requests of a client that logs in or writes its
\* own cookie, across redeployments.
InitGuard ==
    /\ InitCommon
    /\ Runtime(Production)
    /\ ADMIN_ADDRESSES \in EnvConfigs
    /\ focus = NoFocus

\* The requests of the client: a page, the login page, and an API route
\* with each x-admin-session header a client can send.
GuardRequests ==
    { <<"/admin", NoCookie>>, <<"/admin/login", NoCookie>> }
    \cup { <<"/api/admin/casts", sent>> : sent \in ClientHeaders }

NextGuard ==
    \/ Tick(MaxTimeSession)
    \/ \E ip \in IPs, request \in GuardRequests :
          Request(ip, request[1], "GET", FALSE, request[2])
    \/ \E ip \in IPs, address \in Addresses :
          Login(ip, address, sign("0xab", generateAuthMessage("0xab", 1)),
                generateAuthMessage("0xab", 1), FALSE, FALSE)
    \/ \E c \in ClientCookies : ClientSetsCookie(c)
    \/ \E env \in EnvConfigs, version \in Versions : Redeploy(env, version)

SpecGuard == InitGuard /\ [][NextGuard]_vars

\* Logout: a client that logs in, reads its session through the server
\* actions and the guard, logs out, and puts its cookie back.
InitLogout ==
    /\ InitCommon
    /\ \E r \in Runtimes : Runtime(r)
    /\ ADMIN_ADDRESSES = <<"0xAB">>
    /\ focus = LogoutFocus

NextLogout ==
    \/ Tick(MaxTimeSession)
    \/ \E ip \in IPs, address \in Addresses, signature \in Signatures :
          Login(ip, address, signature, generateAuthMessage("0xab", 1), FALSE, FALSE)
    \/ Validate
    \/ GetSession
    \/ \E ip \in IPs : Request(ip, "/admin", "GET", FALSE, NoCookie)
    \/ \E build \in Builds : Logout(build)
    \/ ClientRestoresCookie

SpecLogout == InitLogout /\ [][NextLogout]_vars

\* The enhanced limiter under the calls of one client in one category: the
\* calls against Redis overlap, and each Redis get and set may fail.
EnhancedConfig == ENHANCED_RATE_LIMITS[enhancedCategory]

\* A call returns its result; replaced: it has put its own record object
\* into memoryStore.
Return(p, d, replaced) ==
    /\ inFlight' = [ q \in Calls |->
                       IF q = p THEN Idle
                       ELSE IF replaced /\ inFlight[q].alias
                       THEN [inFlight[q] EXCEPT !.alias = FALSE, !.held = memoryStore]
                       ELSE inFlight[q] ]
    /\ admitted' = IF d.allowed THEN Append(admitted, inFlight[p].t) ELSE admitted
    /\ limitedAt' = IF d.allowed THEN 0 - 1
                    ELSE IF d.write THEN inFlight[p].t ELSE limitedAt
    /\ lastEnhanced' = [ t |-> inFlight[p].t, allowed |-> d.allowed,
                         remaining |-> d.remaining, retryAfter |-> d.retryAfter,
                         wrote |-> d.write, limitedAt |-> limitedAt,
                         returned |-> TRUE ]

\* enhancedRateLimit is called: it reads Date.now() and asks for the record.
EnhancedBegin(p) ==
    /\ inFlight[p].pc = "idle"
    /\ redis \/ \A q \in Calls : inFlight[q].pc = "idle"
    /\ inFlight' = [inFlight EXCEPT ![p] = [Idle EXCEPT !.pc = "get", !.t = now]]
    /\ begun' = begun + 1
    /\ overlapped' = (overlapped \/ \E q \in Calls : inFlight[q].pc # "idle")
    /\ UNCHANGED <<now, guardVars, toolVars, redis, redisData, memoryStore, enhancedCategory,
                   admitted, limitedAt, storeFailed, lastEnhanced, lastStatus>>

\* getRateLimitRecord answers (ok: the Redis get succeeded); the call runs on
\* to its return or to its setRateLimitRecord.  A record that came from
\* memoryStore is the stored object itself: the call's assignments to
\* record.requests, record.blockedUntil and record.lastCleanup change it in
\* place.
EnhancedGet(p, ok) ==
    LET fromMemory == ~(redis /\ ok) /\ memoryStore # Null
        step(d) ==
            /\ IF d.write
               THEN /\ inFlight' = [inFlight EXCEPT ![p].pc = "set", ![p].decision = d,
                                                    ![p].read = getRateLimitRecord(
                                                        redis, ok, redisData, memoryStore),
                                                    ![p].alias = fromMemory,
                                                    ![p].held = d.record]
                    /\ UNCHANGED <<admitted, limitedAt, lastEnhanced>>
               ELSE Return(p, d, FALSE)
            /\ memoryStore' = IF fromMemory /\ d.write THEN d.record ELSE memoryStore
            /\ storeFailed' = (storeFailed \/ (redis /\ ~ok))
            /\ UNCHANGED <<now, guardVars, toolVars, redis, redisData,
                           enhancedCategory, begun, overlapped, lastStatus>>
    IN  /\ inFlight[p].pc = "get"
        /\ redis \/ ok
        /\ step(enhancedRateLimit(getRateLimitRecord(redis, ok, redisData, memoryStore),
                                  EnhancedConfig, inFlight[p].t))

\* setRateLimitRecord answers (ok: the Redis setex succeeded); the call
\* returns.  After a failure memoryStore.set stores the call's object: no
\* change when that is the object memoryStore holds, else the object
\* replaces it, and a call that holds the replaced object keeps it as its own.
EnhancedSet(p, ok) ==
    LET replaced == ~(redis /\ ok) /\ ~inFlight[p].alias
        step(stores) ==
            /\ redisData' = stores.redisData
            /\ memoryStore' = stores.memoryStore
            /\ Return(p, inFlight[p].decision, replaced)
            /\ storeFailed' = (storeFailed \/ (redis /\ ~ok))
            /\ UNCHANGED <<now, guardVars, toolVars, redis, enhancedCategory, begun, overlapped,
                           lastStatus>>
    IN  /\ inFlight[p].pc = "set"
        /\ redis \/ ok
        /\ step(setRateLimitRecord(redis, ok, redisData, memoryStore,
                                   inFlight[p].decision.record,
                                   IF inFlight[p].alias THEN memoryStore
                                   ELSE inFlight[p].held))

\* The guard, at rest.
GuardIdle ==
    /\ ADDRESSES_VERSION = "v1.0"
    /\ rateLimitStore = EmptyStore
    /\ cookie = NoCookie
    /\ issued = FALSE
    /\ cleared = FALSE
    /\ accepted = <<>>
    /\ blockedAt = 0 - 1
    /\ failures = <<>>
    /\ perCategory = NoRecord
    /\ last = NoOp
    /\ Runtime(Production)
    /\ ADMIN_ADDRESSES = <<"0xAB">>
    /\ focus = NoFocus

InitEnhanced ==
    /\ now = 1
    /\ GuardIdle
    /\ redis \in BOOLEAN
    /\ enhancedCategory \in { "admin_pages", "admin_export" }
    /\ EnhancedInit
    /\ ToolsIdle

NextEnhanced ==
    \/ Tick(MaxTimeEnhanced)
    \/ \E p \in Calls : begun < MaxCalls /\ EnhancedBegin(p)
    \/ \E p \in Calls, ok \in BOOLEAN : EnhancedGet(p, ok)
    \/ \E p \in Calls, ok \in BOOLEAN : EnhancedSet(p, ok)

SpecEnhanced == InitEnhanced /\ [][NextEnhanced]_vars

\* The enhanced limiter under calls made strictly one after another: a call
\* begins when the one before has returned; each Redis get and set may fail.
NextSequential ==
    \/ Tick(MaxTimeEnhanced)
    \/ begun < MaxSequentialCalls /\ EnhancedBegin(1)
    \/ \E ok \in BOOLEAN : EnhancedGet(1, ok)
    \/ \E ok \in BOOLEAN : EnhancedSet(1, ok)

SpecSequential == InitEnhanced /\ [][NextSequential]_vars

\* checkRateLimitStatus is called for the client and the category of the
\* limiter's calls (ok: the Redis get succeeded) and returns; limiter is
\* the allowed result of enhancedRateLimit from the same record at the same
\* instant, full: the record holds maxRequests requests and no block in
\* force.
EnhancedStatus(ok) ==
    LET step(record) ==
            /\ lastStatus' =
                  [ allowed |-> checkRateLimitStatus(record, EnhancedConfig, now).allowed,
                    limiter |-> enhancedRateLimit(record, EnhancedConfig, now).allowed,
                    full |-> /\ ~Blocked(record, now)
                             /\ Len(record.requests) >= EnhancedConfig.maxRequests,
                    returned |-> TRUE ]
            /\ UNCHANGED <<now, guardVars, toolVars, redis, redisData, memoryStore,
                           enhancedCategory, inFlight, begun, admitted, limitedAt,
                           storeFailed, overlapped, lastEnhanced>>
    IN  /\ redis \/ ok
        /\ step(getRateLimitRecord(redis, ok, redisData, memoryStore))

\* The enhanced limiter's calls, one after another, and the previews of its
\* answer.
NextStatus ==
    \/ Tick(MaxTimeEnhanced)
    \/ begun < MaxCalls /\ EnhancedBegin(1)
    \/ \E ok \in BOOLEAN : EnhancedGet(1, ok)
    \/ \E ok \in BOOLEAN : EnhancedSet(1, ok)
    \/ \E ok \in BOOLEAN : EnhancedStatus(ok)

SpecStatus == InitEnhanced /\ [][NextStatus]_vars

\* A login is submitted with the signature string s: verifyAdminSignature
\* normalises it and, unless the length check throws, calls verifyMessage
\* with the normalised string.
Normalize(s) ==
    /\ rawSignature' = s
    /\ normalizedSignature' = normalizeSignature(s)
    /\ UNCHANGED <<now, guardVars, enhancedVars, csrfVars, pending>>

InitFormat ==
    /\ InitCommon
    /\ Runtime(Production)
    /\ ADMIN_ADDRESSES = <<"0xAB">>
    /\ focus = NoFocus

NextFormat ==
    \E s \in SignatureStrings : Normalize(s)

SpecFormat == InitFormat /\ [][NextFormat]_vars

\* setCSRFToken(): a token is generated and its data stored in the cookie;
\* the clock may advance between the two Date.now() of generateCSRFToken.
SetCSRFToken(secret, lag) ==
    /\ now + lag <= MaxTimeCsrf
    /\ now' = now + lag
    /\ csrfCookie' = generateCSRFToken(secret, now, now + lag)
    /\ lastCsrf' = [NoCsrfOp EXCEPT !.op = "setCSRFToken", !.time = now + lag,
                                    !.cookieBefore = csrfCookie]
    /\ UNCHANGED <<guardVars, enhancedVars, formatVars, pending>>

\* clearCSRFToken()
ClearCSRFToken ==
    /\ csrfCookie # NoCsrfCookie
    /\ csrfCookie' = NoCsrfCookie
    /\ lastCsrf' = [NoCsrfOp EXCEPT !.op = "clearCSRFToken", !.time = now,
                                    !.cookieBefore = csrfCookie]
    /\ UNCHANGED <<now, guardVars, enhancedVars, formatVars, pending>>

\* Cookie values a client can write by itself: no JSON, the JSON null, token
\* data of its own making, with and without an expiresAt and an issuedAt.
ClientCsrfCookies ==
    { GarbageCsrf, NullCsrf,
      CSRFTokenData(WrongToken, <<"x">>, 1, MaxTimeCsrf + 1),
      CSRFTokenData(WrongToken, <<"x">>, 1, UndefinedNum),
      CSRFTokenData(WrongToken, <<"x">>, UndefinedNum, MaxTimeCsrf + 1) }

ClientSetsCsrfCookie(c) ==
    /\ csrfCookie # c
    /\ csrfCookie' = c
    /\ lastCsrf' = [NoCsrfOp EXCEPT !.op = "client", !.time = now,
                                    !.cookieBefore = csrfCookie]
    /\ UNCHANGED <<now, guardVars, enhancedVars, formatVars, pending>>

\* The tokens a client can send with a cookie c: none, a token of its own,
\* the token stored in the cookie, the digest of the cookie's secret and
\* issuedAt.
ClientTokens(c) ==
    { NoToken, WrongToken }
    \cup ( IF c \in { NoCsrfCookie, GarbageCsrf, NullCsrf } \/ c.issuedAt = UndefinedNum
           THEN {}
           ELSE { c.token, createHash(c.secret \o toString(c.issuedAt)) } )

\* A request reaches a handler wrapped in withCSRFProtection.
CsrfRequest(method, headerToken, jsonToken) ==
    LET step(r) ==
            /\ lastCsrf' = [NoCsrfOp EXCEPT !.op = "request", !.method = method,
                                !.headerToken = headerToken, !.jsonToken = jsonToken,
                                !.time = now, !.cookieBefore = csrfCookie,
                                !.invoked = r.invoked, !.status = r.status,
                                !.code = r.code]
            /\ UNCHANGED <<now, csrfCookie, guardVars, enhancedVars, formatVars, pending>>
    IN  step(withCSRFProtection(csrfCookie, method, headerToken, jsonToken, now))

InitCsrf ==
    /\ InitCommon
    /\ Runtime(Production)
    /\ ADMIN_ADDRESSES = <<"0xAB">>
    /\ focus = NoFocus

NextCsrf ==
    \/ Tick(MaxTimeCsrf)
    \/ \E secret \in Secrets, lag \in {0, 1} : SetCSRFToken(secret, lag)
    \/ ClearCSRFToken
    \/ \E c \in ClientCsrfCookies : ClientSetsCsrfCookie(c)
    \/ \E method \in CsrfMethods, headerToken \in ClientTokens(csrfCookie),
          jsonToken \in ClientTokens(csrfCookie) :
          CsrfRequest(method, headerToken, jsonToken)

SpecCsrf == InitCsrf /\ [][NextCsrf]_vars

\* A request calls enhancedRateLimit with a Redis client configured, or a
\* login calls verifyAdminSignature: the call runs to its first await on an
\* external service.
Call(p, op) ==
    /\ pending[p].pc = "idle"
    /\ pending' = [pending EXCEPT ![p] =
                      [ op |-> op,
                        pc |-> IF op = "enhancedRateLimit" THEN "get" ELSE "verifyMessage",
                        settled |-> "no", response |-> "none" ]]
    /\ UNCHANGED <<now, guardVars, enhancedVars, formatVars, csrfVars>>

\* The external service answers: the awaited promise is fulfilled or rejected.
Settle(p, outcome) ==
    /\ pending[p].pc \in Awaits
    /\ pending[p].settled = "no"
    /\ pending' = [pending EXCEPT ![p].settled = outcome]
    /\ UNCHANGED <<now, guardVars, enhancedVars, formatVars, csrfVars>>

\* The call goes on after its await has settled.  After the get (or its
\* catch) enhancedRateLimit returns for a blocked record or goes on to
\* setRateLimitRecord and its await; after the setex (or its catch) it
\* returns; verifyAdminSignature goes on to its result, or to its catch.
Resume(p, blocked) ==
    /\ pending[p].pc \in Awaits
    /\ pending[p].settled # "no"
    /\ pending' = [pending EXCEPT ![p] =
          IF pending[p].pc = "get" /\ ~blocked
          THEN [@ EXCEPT !.pc = "setex", !.settled = "no"]
          ELSE [@ EXCEPT !.pc = "done",
                         !.response =
                             IF pending[p].pc = "verifyMessage" /\ pending[p].settled = "rejected"
                             THEN "failure" ELSE "result"]]
    /\ UNCHANGED <<now, guardVars, enhancedVars, formatVars, csrfVars>>

\* The response has gone out.
Respond(p) ==
    /\ pending[p].pc = "done"
    /\ pending' = [pending EXCEPT ![p] = NoRequest]
    /\ UNCHANGED <<now, guardVars, enhancedVars, formatVars, csrfVars>>

InitPending ==
    /\ InitCommon
    /\ Runtime(Production)
    /\ ADMIN_ADDRESSES = <<"0xAB">>
    /\ focus = NoFocus

NextPending ==
    \/ \E p \in Calls, op \in { "enhancedRateLimit", "verifyAdminSignature" } : Call(p, op)
    \/ \E p \in Calls, outcome \in { "fulfilled", "rejected" } : Settle(p, outcome)
    \/ \E p \in Calls, blocked \in BOOLEAN : Resume(p, blocked)
    \/ \E p \in Calls : Respond(p)

\* The runtime runs the continuation of a settled promise and sends the
\* response of a call that has returned; nothing makes a client call, and
\* nothing makes an external service answer.
FairPending ==
    \A p \in Calls :
        /\ WF_vars(\E blocked \in BOOLEAN : Resume(p, blocked))
        /\ WF_vars(Respond(p))

SpecPending == InitPending /\ [][NextPending]_vars /\ FairPending

----------------------------------------------------------------------------
\* Claims

ConfigOf(call) == RATE_LIMITS[call.category]

LastCalls == { last.calls[i] : i \in DOMAIN last.calls }

AuthKeys == { clientIpKey(ip) : ip \in IPs }

\* C1: for every client id and category, at most maxRequests checkRateLimit
\* calls are accepted within any interval of length windowMs, and a call made
\* when maxRequests calls have been accepted inside the window is rejected
\* with retryAfter > 0.
C1_AtMostMaxRequestsPerWindow ==
    /\ focus # NoFocus => Len(accepted) <= RATE_LIMITS[focus[2]].maxRequests
    /\ \A call \in LastCalls :
          call.priorAccepted >= ConfigOf(call).maxRequests
              => ~call.allowed /\ call.retryAfter > 0

\* C2: after checkRateLimit rejects a call at time T because the limit was
\* reached, every call of the same client and category before
\* T + blockDurationMs is rejected, and the first call at or after
\* T + blockDurationMs is accepted with an emptied request window.  Stated
\* for the calls whose record holds requests of this category only.
C2_BlockedForBlockDuration ==
    \A call \in LastCalls :
        (call.blockedAt >= 0 /\ call.alone) =>
            IF call.time < call.blockedAt + ConfigOf(call).blockDurationMs
            THEN ~call.allowed
            ELSE call.allowed /\ call.requests = <<call.time>>

\* C3: the allowed/remaining result of adminRateLimit for a client and a
\* category depends only on that client's earlier requests in that category:
\* it is the result of a record kept for the (client, category) pair alone.
C3_CategoriesAreIndependent ==
    last.op = "middleware" =>
        \A call \in LastCalls :
            /\ call.allowed = call.ownAllowed
            /\ call.remaining = call.ownRemaining

\* C4: a verifyAdminSignature call that succeeds leaves the client's
\* authentication-failure record unchanged.
C4_SuccessLeavesAuthRecordUnchanged ==
    [][ (last'.op = "verifyAdminSignature" /\ last'.success)
            => \A k \in AuthKeys : rateLimitStore'[k] = rateLimitStore[k] ]_vars

\* C5: each failed signature verification consumes exactly one
\* authentication-failure slot: an attempt with an authorized address is
\* handed to signature verification when fewer than maxRequests failed
\* verifications lie inside the window, it is rejected as rate-limited when
\* maxRequests do, and a failed verification adds one request to the record.
C5_FailureConsumesOneSlot ==
    (last.op = "verifyAdminSignature" /\ last.authorized) =>
        /\ last.verified
              <=> last.priorFailures < RATE_LIMITS["admin_auth_failures"].maxRequests
        /\ (last.verified /\ ~last.success)
              => Cardinality({ i \in DOMAIN last.calls : last.calls[i].allowed }) = 1

\* C6: verifyAdminSignature called with an address that is not on the
\* allow-list returns failure without handing the signature to verification
\* and without touching the limiter: the store and the cookie are unchanged.
C6_UnauthorizedLeavesLimiterUntouched ==
    [][ (last'.op = "verifyAdminSignature" /\ ~last'.authorized
            /\ ADMIN_ADDRESSES # Unset)
            => /\ rateLimitStore' = rateLimitStore
               /\ cookie' = cookie
               /\ ~last'.success /\ ~last'.verified
               /\ last'.error = "Address not authorized for admin access" ]_vars

\* An address that is not on the allow-list was rejected while the client's
\* authentication-failure record held earlier requests.
C6_Witness ==
    /\ last.op = "verifyAdminSignature" /\ ~last.authorized
    /\ ADMIN_ADDRESSES # Unset
    /\ \E k \in AuthKeys : Len(rateLimitStore[k].requests) = 2
    /\ last.time > 1

\* The session checks of the specification: now < expiresAt, the version is
\* the policy's, the address is on the allow-list (compared in lower case).
SessionInvariant(c, t) ==
    /\ IsSession(c)
    /\ t < c.expiresAt
    /\ c.addressVersion = ADDRESSES_VERSION
    /\ ~getAuthorizedAddressesThrows(ADMIN_ADDRESSES)
    /\ isAuthorizedAddress(ADMIN_ADDRESSES, c.address)

\* The reads of the cookie that decide on a session.
IsRead(ops) == last.op \in ops /\ last.checked

\* C7: the route guard lets a request for a protected path other than
\* /admin/login through to its handler only if the cookie is a session that
\* is unexpired (now < expiresAt), of the current policy version, and for an
\* address on the allow-list.
C7_GuardForwardsOnlyValidSessions ==
    (IsRead({"middleware"}) /\ last.status = "next")
        => SessionInvariant(last.cookieBefore, last.time)

\* C8: a cookie that the guard or validateAdminSession accepts as a valid
\* session was set by an earlier successful verifyAdminSignature; a value
\* the client wrote by itself is never accepted.
C8_AcceptedSessionsWereIssued ==
    (IsRead({"middleware", "validateAdminSession"}) /\ last.isValid)
        => last.issuedBefore

\* C9: a session issued under the previous policy version is rejected by
\* validateAdminSession and by the guard on the next read, and the cookie
\* is gone after that read.
C9_VersionBumpInvalidatesAndDeletes ==
    ( /\ IsRead({"middleware", "validateAdminSession"})
      /\ last.issuedBefore
      /\ IsSession(last.cookieBefore)
      /\ last.cookieBefore.addressVersion # ADDRESSES_VERSION )
        => ~last.isValid /\ cookie = NoCookie

\* C10: a read by validateAdminSession or getAdminSession after expiresAt
\* has passed returns no session and deletes the cookie.
C10_ExpiredReadDeletesCookie ==
    ( /\ IsRead({"validateAdminSession", "getAdminSession"})
      /\ IsSession(last.cookieBefore)
      /\ last.time > last.cookieBefore.expiresAt )
        => /\ ~last.isValid
           /\ last.session = NoCookie
           /\ cookie = NoCookie

\* A session that the server issued, still of the current version and for
\* an address still on the allow-list, is read by validateAdminSession
\* after its expiry: no session, no cookie.
C10_Witness ==
    /\ last.op = "validateAdminSession"
    /\ last.issuedBefore
    /\ IsSession(last.cookieBefore)
    /\ last.time > last.cookieBefore.expiresAt
    /\ last.cookieBefore.addressVersion = ADDRESSES_VERSION
    /\ ~getAuthorizedAddressesThrows(ADMIN_ADDRESSES)
    /\ isAuthorizedAddress(ADMIN_ADDRESSES, last.cookieBefore.address)
    /\ last.error = "Session expired"
    /\ ~last.isValid /\ cookie = NoCookie

\* C11: validateAdminSession and getAdminSession return (they do not throw),
\* and for a cookie that is no JSON or lacks a required field they return no
\* session and delete the cookie.
C11_MalformedCookieIsDeleted ==
    ( /\ IsRead({"validateAdminSession", "getAdminSession"})
      /\ last.cookieBefore # NoCookie
      /\ ~IsSession(last.cookieBefore) )
        => /\ ~last.isValid
           /\ last.session = NoCookie
           /\ cookie = NoCookie

\* C12: when the guard turns a request away because its session is expired,
\* of an outdated version or for an address no longer on the allow-list, the
\* redirect or 401 response deletes the cookie.
C12_GuardRejectionDeletesCookie ==
    ( /\ IsRead({"middleware"})
      /\ last.issuedBefore
      /\ IsSession(last.cookieBefore)
      /\ last.status \in {"redirect", "401"} )
        => cookie = NoCookie

\* The attributes that identify a cookie to the client and restrict it.
Attributes(options) ==
    [ path |-> options.path, domain |-> options.domain,
      secure |-> options.secure, sameSite |-> options.sameSite ]

\* C13: every deletion that clearAdminSession issues carries the path,
\* domain, secure and sameSite attributes of SECURE_COOKIE_OPTIONS, with
\* which verifyAdminSignature sets the cookie, in production and outside it.
C13_DeletionCarriesIssuanceAttributes ==
    (last.op = "logoutAdmin" /\ last.issuedBefore) =>
        /\ last.writes # <<>>
        /\ \A i \in DOMAIN last.writes :
              Attributes(last.writes[i].options)
                  = Attributes(SECURE_COOKIE_OPTIONS(NODE_ENV, NEXT_PUBLIC_URL))

\* C14: a validateAdminSession that follows a successful verifyAdminSignature
\* at once (no time elapsed, policy unchanged) returns a session with the
\* submitted address in its submitted case, the current policy version, and
\* expiresAt - issuedAt equal to the session lifetime.
C14_IssueThenReadRoundTrip ==
    [][ ( /\ last.op = "verifyAdminSignature" /\ last.success
          /\ last.time = now
          /\ last'.op = "validateAdminSession" )
            => /\ last'.isValid
               /\ last'.session.address = last.address
               /\ last'.session.addressVersion = ADDRESSES_VERSION
               /\ last'.session.expiresAt - last'.session.issuedAt = SESSION_LIFETIME
      ]_vars

\* validateAdminSession has read, at the instant of its issuance, the session
\* that a login issued for the mixed-case address 0xCD.
C14_Witness ==
    /\ last.op = "validateAdminSession"
    /\ last.issuedBefore
    /\ IsSession(last.cookieBefore)
    /\ last.cookieBefore.issuedAt = last.time
    /\ last.cookieBefore.address = "0xCD"
    /\ last.isValid
    /\ last.session.address = "0xCD"

\* The guard's limiter record of the client of the last request.
GuardRecord == rateLimitStore[getClientId(CHOOSE ip \in IPs : TRUE)]

\* C15: the guard consults the limiter before the session: a rate-limited
\* request gets 429 whatever cookie it carries and its session is not
\* validated, and a request turned away for its session (redirect or 401)
\* has been accepted and counted by the limiter, its timestamp the record's
\* newest.
C15_LimiterBeforeSession ==
    last.op = "middleware" =>
        /\ ~last.allowed => (last.status = "429" /\ ~last.checked)
        /\ last.status \in {"redirect", "401"} =>
              /\ last.checked /\ ~last.isValid
              /\ last.allowed
              /\ GuardRecord.requests # <<>>
              /\ GuardRecord.requests[Len(GuardRecord.requests)] = last.time

\* A request that carries a session the guard would accept is answered 429.
C15_Witness ==
    /\ last.op = "middleware"
    /\ last.status = "429"
    /\ last.issuedBefore
    /\ validateAdminSessionMiddleware(last.cookieBefore, ADMIN_ADDRESSES,
                                      ADDRESSES_VERSION, last.time).isValid

\* C16: a request for /admin/login is never session-checked and is counted
\* under admin_login_access, whatever its HTTP method; a request for any
\* other admin page without a valid session is redirected.
C16_LoginPageIsLoginAccess ==
    last.op = "middleware" =>
        /\ last.pathname = "/admin/login" =>
              (~last.checked /\ last.category = "admin_login_access")
        /\ ( /\ startsWithAdmin(last.pathname) /\ last.pathname # "/admin/login"
             /\ last.allowed /\ ~last.isValid )
              => (last.checked /\ last.status = "redirect")

\* C17: an /api/admin request that the guard forwards carries, as its
\* x-admin-session header, the session the guard validated from the cookie,
\* whatever header the client sent; with an invalid session the answer is
\* 401 with code ADMIN_AUTH_REQUIRED and the request is not forwarded.
C17_ForwardedHeaderIsValidatedSession ==
    (last.op = "middleware" /\ startsWithApiAdmin(last.pathname) /\ last.allowed) =>
        LET auth == validateAdminSessionMiddleware(last.cookieBefore, ADMIN_ADDRESSES,
                                                   ADDRESSES_VERSION, last.time)
        IN  /\ IF auth.isValid
               THEN last.status = "next" /\ last.session = auth.session
               ELSE /\ last.status = "401"
                    /\ last.code = "ADMIN_AUTH_REQUIRED"
                    /\ last.session = NoCookie
            /\ last.status = "next" =>
                  (IsSession(last.session) /\ last.session = last.cookieBefore)

\* A forwarded /api/admin request whose client sent a forged x-admin-session
\* header: the handler sees the session of the cookie instead.
C17_Witness ==
    /\ last.op = "middleware"
    /\ startsWithApiAdmin(last.pathname)
    /\ last.status = "next"
    /\ last.sent # NoCookie
    /\ last.sent # last.cookieBefore
    /\ last.session = last.cookieBefore

\* C18: verifyAdminSignature returns a result for every input (a malformed
\* signature, a verifier that throws, a configuration that cannot be read),
\* and it returns success and sets the session cookie only when the address
\* is on the allow-list and the verifier returned true; every other outcome
\* carries an error and leaves the cookie as it was.
C18_FailsClosed ==
    last.op = "verifyAdminSignature" =>
        /\ last.success =>
              /\ last.authorized
              /\ last.verdict = "true"
              /\ last.error = ""
              /\ IsSession(cookie) /\ cookie = last.session
        /\ ~last.success =>
              /\ last.error # ""
              /\ last.session = NoCookie
              /\ last.writes = <<>>
              /\ cookie = last.cookieBefore
        /\ last.verdict \in {"throws", "false"} => ~last.success
        /\ ~last.authorized => (~last.success /\ last.verdict = "none")

\* An allow-listed address submits a malformed signature: the verifier
\* throws, the login fails with an error and no cookie is set.
C18_Witness ==
    /\ last.op = "verifyAdminSignature"
    /\ last.authorized
    /\ last.signature = Malformed
    /\ last.verdict = "throws"
    /\ ~last.success
    /\ last.error = "Invalid signature format"
    /\ cookie = NoCookie

\* The previous and the next operation are verifyAdminSignature calls with
\* the same (address, signature, message).
SameTriple ==
    /\ last.op = "verifyAdminSignature" /\ last'.op = "verifyAdminSignature"
    /\ last'.address = last.address
    /\ last'.signature = last.signature
    /\ last'.message = last.message

FRESHNESS_WINDOW == 2

\* C20: a login is accepted only if the signed message embeds the claimed
\* address and an issuance timestamp no older than the freshness window; a
\* triple accepted once is rejected when it is resubmitted after the window.
C20_AcceptedMessageIsFresh ==
    (last.op = "verifyAdminSignature" /\ last.success) =>
        /\ toLowerCase(last.message.address) = toLowerCase(last.address)
        /\ last.time - last.message.timestamp <= FRESHNESS_WINDOW

\* The calls that enhancedRateLimit allowed inside the window that ends with
\* the i-th allowed call.
AdmittedInWindow(i) ==
    { j \in DOMAIN admitted :
        /\ admitted[j] > admitted[i] - EnhancedConfig.windowMs
        /\ admitted[j] <= admitted[i] }

WindowBound ==
    \A i \in DOMAIN admitted :
        Cardinality(AdmittedInWindow(i)) <= EnhancedConfig.maxRequests

\* C21: however the reads and writes of concurrent enhancedRateLimit calls
\* of one fingerprint and category interleave, no update is lost: at most
\* maxRequests calls are allowed within any window of windowMs.  Stated for
\* the behaviours in which no Redis get or set fails.
C21_NoLostUpdate ==
    ~storeFailed => WindowBound

\* C22: after enhancedRateLimit has rejected a call at time T by reaching
\* the limit, a call of the same fingerprint and category made before
\* T + blockDurationMs is rejected and leaves the stored record unchanged,
\* and the first call at or after T + blockDurationMs is accepted with a
\* fresh window (remaining = maxRequests - 1).
C22_BlockedUntilThenFresh ==
    ( /\ lastEnhanced.returned
      /\ lastEnhanced.limitedAt >= 0
      /\ lastEnhanced.t >= lastEnhanced.limitedAt ) =>
        IF lastEnhanced.t < lastEnhanced.limitedAt + EnhancedConfig.blockDurationMs
        THEN ~lastEnhanced.allowed /\ ~lastEnhanced.wrote
        ELSE /\ lastEnhanced.allowed
             /\ lastEnhanced.remaining = EnhancedConfig.maxRequests - 1

\* C23: whichever Redis gets and sets fail, enhancedRateLimit carries on
\* from memoryStore and still allows at most maxRequests calls within any
\* window of windowMs.  Stated for the behaviours in which no two calls
\* overlap.
C23_FallbackKeepsTheLimit ==
    ~overlapped => WindowBound

\* The call p returns in this step.
Returns(p) == inFlight[p].pc # "idle" /\ inFlight'[p].pc = "idle"

\* C30: a rejected call records nothing: enhancedRateLimit appends no
\* timestamp for a call it rejects, a call rejected for a block writes
\* nothing, and no rejected call moves the end of a block that is in force
\* in a store.
C30_RejectionRecordsNothing ==
    [][ \A p \in Calls :
          (Returns(p) /\ ~lastEnhanced'.allowed) =>
              IF inFlight[p].pc = "get"
              THEN redisData' = redisData /\ memoryStore' = memoryStore
              ELSE /\ Len(inFlight[p].decision.record.requests)
                        <= Len(inFlight[p].read.requests)
                   /\ Blocked(redisData, inFlight[p].t)
                        => redisData'.blockedUntil = redisData.blockedUntil
                   /\ Blocked(memoryStore, inFlight[p].t)
                        => memoryStore'.blockedUntil = memoryStore.blockedUntil ]_vars

\* C24: with ADMIN_ADDRESSES unset the process fails at startup: no guard
\* decision and no login is evaluated against a missing or empty allow-list.
C24_NoDecisionWithoutAllowList ==
    last.op \in { "middleware", "verifyAdminSignature" } =>
        /\ ADMIN_ADDRESSES # Unset
        /\ AUTHORIZED_ADDRESSES(ADMIN_ADDRESSES) # {}

\* C27: a session is already invalid at the instant now = expiresAt: a read
\* by validateAdminSession, by getAdminSession or by the guard at exactly
\* the session's expiresAt returns no valid session.
C27_InvalidAtExpiresAt ==
    ( /\ IsRead({"validateAdminSession", "getAdminSession", "middleware"})
      /\ IsSession(last.cookieBefore)
      /\ last.time = last.cookieBefore.expiresAt )
        => ~last.isValid /\ last.session = NoCookie

\* verifyAdminSignature calls verifyMessage with the normalised string.
VerifierCalled == normalizedSignature.submitted /\ ~normalizedSignature.throws

\* C28: strict signature format: a signature string that is not exactly 0x
\* followed by 130 hex digits is rejected without a call of the verifier,
\* and the string handed to the verifier is the one submitted: nothing is
\* padded or truncated into a different well-formed signature.
C28_StrictSignatureFormat ==
    normalizedSignature.submitted =>
        /\ VerifierCalled => normalizedSignature.signature = rawSignature
        /\ ~Canonical(rawSignature) => ~VerifierCalled

\* C29: after clearAdminSession or logoutAdmin, every following read
\* (validateAdminSession, getAdminSession, the guard's validation) returns
\* no session until a new successful verifyAdminSignature issues one.
\* Stated for the reads of a cookie value that the server has issued.
C29_ClearedUntilNewLogin ==
    ( /\ IsRead({"validateAdminSession", "getAdminSession", "middleware"})
      /\ cleared
      /\ last.issuedBefore )
        => ~last.isValid /\ last.session = NoCookie

\* The tokens that the last request supplied, in its header or its JSON body.
Supplied == { lastCsrf.headerToken, lastCsrf.jsonToken } \ { NoToken }

C25_EveryCallResponds ==
    \A p \in Calls : (pending[p].pc \in Awaits) ~> (pending[p].pc = "done")

\* C31 (checkRateLimit): after checkRateLimit rejects a call at time T with
\* retryAfter = r, the next call of the same client and category, made at
\* T + 1000 * r with no call for that client in between, is accepted.
C31_LegacyWaitIsSufficient ==
    [][ ( /\ last.op = "middleware" /\ last'.op = "middleware"
          /\ last.calls # <<>> /\ last'.calls # <<>>
          /\ ~last.calls[1].allowed
          /\ last'.time = last.time + MS_PER_SECOND * last.calls[1].retryAfter )
        => last'.calls[1].allowed ]_vars

\* C31: the advertised wait is sufficient: after enhancedRateLimit rejects a
\* call at time T with retryAfter = r, the next call for the same key, made
\* at T + 1000 * r with no call in between (and no two calls overlapping
\* before), is accepted.
C31_WaitIsSufficient ==
    [][ \A p \in Calls :
          ( /\ inFlight[p].pc # "idle" /\ inFlight'[p].pc = "idle"
            /\ \A q \in Calls \ {p} : inFlight[q].pc = "idle"
            /\ ~overlapped
            /\ lastEnhanced.returned /\ ~lastEnhanced.allowed
            /\ inFlight[p].t = lastEnhanced.t + MS_PER_SECOND * lastEnhanced.retryAfter )
          => lastEnhanced'.allowed ]_vars

\* The timestamps of requests lie inside the window that ends at t, in
\* chronological order.
WindowInOrder(requests, t, config) ==
    /\ \A i \in DOMAIN requests : requests[i] > t - config.windowMs
    /\ \A i, j \in DOMAIN requests : i < j => requests[i] <= requests[j]

\* C32 (checkRateLimit): after every checkRateLimit call made at time now,
\* the record's requests hold only timestamps greater than now - windowMs,
\* in chronological order.
C32_LegacyWindowInOrder ==
    \A call \in LastCalls : WindowInOrder(call.requests, call.time, ConfigOf(call))

\* C32: after every enhancedRateLimit call made at time now that is not
\* rejected by a block already in force, the requests of the record it
\* leaves hold only timestamps greater than now - windowMs, in
\* non-decreasing (chronological) order.
C32_WindowInOrder ==
    \A p \in Calls :
        inFlight[p].pc = "set" =>
            WindowInOrder(inFlight[p].decision.record.requests, inFlight[p].t,
                          EnhancedConfig)

\* C33: on every accepted checkRateLimit call, remaining equals maxRequests
\* minus the number of accepted calls for that key still inside the window
\* (this call included), so 0 <= remaining <= maxRequests - 1; on every
\* rejected call remaining is 0.
C33_RemainingCountsAccepted ==
    \A call \in LastCalls :
        IF call.allowed
        THEN /\ call.remaining = ConfigOf(call).maxRequests - (call.priorAccepted + 1)
             /\ call.remaining >= 0
             /\ call.remaining <= ConfigOf(call).maxRequests - 1
        ELSE call.remaining = 0

\* C33 (enhancedRateLimit): the same for the enhanced limiter, for calls
\* that do not overlap and a Redis that does not fail.
C33_EnhancedRemainingCountsAccepted ==
    (lastEnhanced.returned /\ ~overlapped /\ ~storeFailed) =>
        IF lastEnhanced.allowed
        THEN /\ lastEnhanced.remaining = EnhancedConfig.maxRequests
                    - Cardinality({ j \in DOMAIN admitted :
                          admitted[j] > lastEnhanced.t - EnhancedConfig.windowMs })
             /\ lastEnhanced.remaining >= 0
             /\ lastEnhanced.remaining <= EnhancedConfig.maxRequests - 1
        ELSE lastEnhanced.remaining = 0

\* C34: checkRateLimitStatus never changes the stored record, and its
\* allowed result equals the allowed result that an enhancedRateLimit call
\* for the same fingerprint and category at the same instant would return.
C34_StatusPreviewsTheLimiter ==
    [][ lastStatus' # lastStatus =>
          /\ redisData' = redisData
          /\ memoryStore' = memoryStore
          /\ lastStatus'.allowed = lastStatus'.limiter ]_vars

\* A preview was refused because the window of the record it read was
\* full, with no block in force.
C34_Witness ==
    /\ lastStatus.returned /\ ~lastStatus.allowed
    /\ lastStatus.full

\* C35: the guard's validateAdminSessionMiddleware and validateAdminSession
\* reach the same valid/invalid decision for every cookie value, every time
\* and every allow-list configuration, entries written with surrounding
\* whitespace and a missing ADMIN_ADDRESSES included.
C35_GuardAgreesWithSessionStore ==
    validateAdminSessionMiddleware(cookie, ADMIN_ADDRESSES, ADDRESSES_VERSION, now).isValid
        = validateAdminSession(cookie, ADMIN_ADDRESSES, ADDRESSES_VERSION, now).isValid

\* C36: getAdminSession returns a session only for cookies that
\* validateAdminSession also accepts: it applies the same required-field,
\* addressVersion, expiry and allow-list checks.  Stated for the cookies the
\* server has issued.
C36_GetSessionOnlyForValidSessions ==
    (issued /\ getAdminSession(cookie, ADMIN_ADDRESSES, now).session # NoCookie)
        => validateAdminSession(cookie, ADMIN_ADDRESSES, ADDRESSES_VERSION, now).isValid

\* The record of the focus key was deleted by cleanupRateLimits and the
\* key has not called since.
Collected ==
    /\ focus # NoFocus
    /\ rateLimitStore[focus[1]] = NoRecord
    /\ perCategory # NoRecord

\* C37: garbage collection is unobservable: the results of checkRateLimit
\* are those of a record that cleanupRateLimits never deletes, because every
\* record it deletes holds no timestamp inside any category window and no
\* block still in force.
C37_CleanupIsUnobservable ==
    /\ \A call \in LastCalls :
          /\ call.allowed = call.ownAllowed
          /\ call.remaining = call.ownRemaining
    /\ Collected =>
          \A c \in Categories, i \in DOMAIN perCategory.requests :
              /\ perCategory.requests[i] <= now - RATE_LIMITS[c].windowMs
              /\ perCategory.requests[i] + RATE_LIMITS[c].blockDurationMs <= now

\* A call found its key's record deleted by the cleanup and was answered.
C37_Witness ==
    \E call \in LastCalls : ~call.alone /\ call.allowed /\ call.time > CLEANUP_MAX_AGE

\* C38: a token produced by generateCSRFToken validates against its own
\* data: validateCSRFToken(token, secret, issuedAt) is true for the token,
\* secret and issuedAt of one generateCSRFToken result, whatever the clock
\* does between the two clock reads inside generateCSRFToken.
C38_GeneratedTokenValidates ==
    (lastCsrf.op = "setCSRFToken" /\ csrfCookie.kind = "data") =>
        validateCSRFToken(csrfCookie.token, csrfCookie.secret, csrfCookie.issuedAt)

====
